---- MODULE Spec2Model ----
(***************************************************************************)
(* ClaudeWire: the SessionManager (session/manager.ts), the store it       *)
(* talks to (storage/redis.ts) and the ClaudeCodeWrapper it supervises     *)
(* (claude/wrapper.ts), as one state machine.                              *)
(*                                                                         *)
(* Scheduling.  The program runs on one event loop.  An async method runs  *)
(* synchronously up to an await of store I/O or of wrapper.terminate();    *)
(* one action of the model is one such synchronous run, together with the  *)
(* promise continuations (microtasks) it makes ready.  Every store command *)
(* goes out on the one shared connection of getRedisClient(), so the       *)
(* server applies commands in the order they were sent and the replies     *)
(* come back in that order: a command takes effect in the step that sends  *)
(* it, its reply is captured there, and the suspended callers resume in    *)
(* first-in first-out order (storeQ).                                      *)
(***************************************************************************)
EXTENDS Integers, Sequences, FiniteSets, TLC

\* ---------------------------------------------------------------- bounds
MaxCalls == 2
MaxSessions == 2
MaxInFlight == 2
MaxElapsed == 2
MaxText == 6
MaxChunkLength == 4
MaxRaw == 4
MaxOps == 3
MaxFlights == 2
MaxWrapOps == 3
MaxData == 3
MaxSpawns == 2
MaxPrompts == 1

\* ThreadStreamer.flush cuts the buffer at 3900 characters; the texts here
\* are a few characters long and are cut at FlushMax
FlushMax == 2
\* a unit is updated in place while fewer than 5 units were delivered
UpdateLimit == 5

Users == {"u1"}
Sids == 1..MaxSessions
ExitCodes == {0, 1}
NoSid == 0
NoRec == "none"

VARIABLES
  sessKey,      \* store key session:<id>: persisted Session.status, or NoRec
  userKey,      \* store key session:user:<userId>: session id, or NoSid
  storeQ,       \* suspended callers awaiting a store reply, oldest first
  termWait,     \* suspended callers awaiting wrapper.terminate(), each with
                \* its forced-kill timer armed and its once('exit') listener
  procs,        \* SessionManager.claudeProcesses (keys)
  timerMap,     \* SessionManager.sessionTimeoutTimers: "none"|"armed"|"fired"
  nTimers,      \* inactivity timers of each session set and neither cleared nor fired
  pty,          \* ClaudeCodeWrapper.pty: TRUE iff not null
  wstatus,      \* ClaudeCodeWrapper.status, "unborn" before construction
  readyTimer,   \* ClaudeCodeWrapper.readyTimeout armed
  osProc,       \* the subprocess: "none"|"running"|"killed"|"exited"
  wrote,        \* pty.write calls of the latest step: <<wrapper, how many>>
  sessUser,     \* Session.userId of each constructed session
  nextSid,      \* next fresh nanoid()
  nCalls,       \* user calls started so far
  nElapsed,     \* inactivity windows run out so far (timer firings, key expiries)
  createdEv,    \* sessions for which 'sessionCreated' was emitted
  nNotified,    \* how many times 'sessionTerminated' was emitted per session
  logged,       \* logSessionEnd call of the latest step: <<session, exit code>>
  emitted,      \* 'sessionTerminated' emitted in the latest step: <<session, code>>
  last,         \* the call that returned in the latest step
  down,         \* SessionManager.shutdown(): "no"|"pending"|"done"
  text,         \* chunkText: the text argument, a sequence of characters
  maxLength,    \* chunkText: the maxLength argument
  chunks,       \* chunkText: the returned pieces, <<>> before the call
  raw,          \* cleanTerminalOutput: the text of the first call
  cleaned,      \* cleanTerminalOutput: what the calls so far returned, in order
  buffer,         \* ThreadStreamer.buffer, a sequence of characters
  lastMessageTs,  \* ThreadStreamer.lastMessageTs: a unit of the thread, 0 for null
  debounceTimer,  \* ThreadStreamer.debounceTimer: "none" (null), or the handle of
                  \* a timer that is "armed" or has "fired"
  isFinalized,    \* ThreadStreamer.isFinalized
  messageCount,   \* ThreadStreamer.messageCount
  pending,        \* the debounce timers of this streamer the runtime will still run
  flights,        \* the calls of flush, finalize and sendImmediate suspended on a
                  \* request to the destination, in the order they began
  thread,         \* the destination: the texts of the units of the thread
  nOps,           \* calls of the streamer's methods so far
  burst,          \* the text appended since the last timer-fired flush
  ev,             \* what the latest step of the streamer did
  handle,         \* one ClaudeCodeWrapper: this.pty is not null
  status,         \* its status
  outputBuffer,   \* its outputBuffer, a sequence of characters
  outputTimer,    \* its debounceTimer: "none" (null), or the handle of a timer
                  \* that is "armed" or has "fired"
  outputPending,  \* the output timers of the wrapper the runtime will still run
  readyTimeout,   \* its readyTimeout: "none", "armed" or "fired"
  subs,           \* the subprocesses it spawned, oldest first: "running",
                  \* "killed" (signalled, exit not yet reported) or "exited"
  deadlines,      \* the terminate() calls not yet resolved, each with its
                  \* forced-kill timer armed and its once('exit') listener
  nWrapOps,       \* calls of the wrapper's methods so far
  nData,          \* raw-data events so far
  wev,            \* what the latest step of the wrapper did
  prompting,      \* the subprocess of each session waits at a prompt that
                  \* was detected and not answered
  nPrompts        \* 'toolUsePrompt' events so far

storeVars == <<sessKey, userKey>>
mgrVars == <<procs, timerMap, nTimers>>
wrapVars == <<pty, wstatus, readyTimer, osProc>>
obsVars == <<createdEv, nNotified>>
ctlVars == <<sessUser, nextSid, nCalls, nElapsed>>
mgrAll == <<sessKey, userKey, storeQ, termWait, procs, timerMap, nTimers, pty, wstatus,
            readyTimer, osProc, wrote, sessUser, nextSid, nCalls, nElapsed, createdEv,
            nNotified, logged, emitted, last>>
chunkVars == <<text, maxLength, chunks>>
\* what the session manager and its shutdown leave alone
cleanVars == <<raw, cleaned>>
strVars == <<buffer, lastMessageTs, debounceTimer, isFinalized, messageCount,
             pending, flights, thread, nOps, burst, ev>>
cwVars == <<handle, status, outputBuffer, outputTimer, outputPending, readyTimeout,
            subs, deadlines, nWrapOps, nData, wev>>
promptVars == <<prompting, nPrompts>>
aside == <<chunkVars, cleanVars, strVars, cwVars, promptVars>>
vars == <<mgrAll, down, aside>>
\* what the steps of the session manager proper leave alone
others == <<down, aside>>

\* A suspended async call: which method, for whom, where it waits, and the
\* values it captured (session id, session record status, control key,
\* exit code, status to write).
Task(kind, user, sid, pc, st, arg) ==
  [kind |-> kind, user |-> user, sid |-> sid, pc |-> pc, st |-> st, arg |-> arg]

NoWrite == <<NoSid, 0>>
NoEvent == <<NoSid, 0>>
NoCall == [kind |-> "none", user |-> "none", sid |-> NoSid, result |-> "none"]
Ret(t, result) == [kind |-> t.kind, user |-> t.user, sid |-> t.sid, result |-> result]

\* what the latest step did that the outside can see: the call that returned,
\* the pty.write calls, the logSessionEnd call, the 'sessionTerminated' emit
Observe(ret, w, l, e) ==
  /\ last' = ret
  /\ wrote' = w
  /\ logged' = l
  /\ emitted' = e

Quiet == Observe(NoCall, NoWrite, NoEvent, NoEvent)

\* what a step of the wrapper did: the method or callback that ran, the
\* events it emitted in order (name and payload), its pty.write and
\* pty.kill calls, the terminate() calls it resolved, whether it threw, and
\* what isAlive() returns where the step emits (at its end, if it emits
\* nothing)
Did(op, emits, writes, kills, resolved, threw, alive) ==
  [op |-> op, emits |-> emits, writes |-> writes, kills |-> kills,
   resolved |-> resolved, threw |-> threw, alive |-> alive]

\* a ClaudeCodeWrapper after construction
WrapInit ==
  /\ handle = FALSE
  /\ status = "starting"
  /\ outputBuffer = <<>>
  /\ outputTimer = "none"
  /\ outputPending = 0
  /\ readyTimeout = "none"
  /\ subs = <<>>
  /\ deadlines = 0
  /\ nWrapOps = 0
  /\ nData = 0
  /\ wev = Did("none", <<>>, 0, 0, 0, FALSE, FALSE)

\* a ThreadStreamer after construction, with an empty thread
Idle == [op |-> "none", by |-> "none", pc |-> "none", out |-> "none", sent |-> "none", tries |-> 0]

StreamInit ==
  /\ buffer = <<>>
  /\ lastMessageTs = 0
  /\ debounceTimer = "none"
  /\ isFinalized = FALSE
  /\ messageCount = 0
  /\ pending = 0
  /\ flights = <<>>
  /\ thread = <<>>
  /\ nOps = 0
  /\ burst = <<>>
  /\ ev = Idle

MgrInit ==
  /\ sessKey = [s \in Sids |-> NoRec]
  /\ userKey = [u \in Users |-> NoSid]
  /\ storeQ = <<>>
  /\ termWait = <<>>
  /\ procs = {}
  /\ timerMap = [s \in Sids |-> "none"]
  /\ nTimers = [s \in Sids |-> 0]
  /\ pty = [s \in Sids |-> FALSE]
  /\ wstatus = [s \in Sids |-> "unborn"]
  /\ readyTimer = [s \in Sids |-> FALSE]
  /\ osProc = [s \in Sids |-> "none"]
  /\ wrote = NoWrite
  /\ sessUser = [s \in Sids |-> "none"]
  /\ nextSid = 1
  /\ nCalls = 0
  /\ nElapsed = 0
  /\ createdEv = {}
  /\ nNotified = [s \in Sids |-> 0]
  /\ prompting = [s \in Sids |-> FALSE]
  /\ nPrompts = 0
  /\ logged = NoEvent
  /\ emitted = NoEvent
  /\ last = NoCall

\* the state after construction; shutdown() has not been called
Init ==
  /\ MgrInit
  /\ down = "no"
  /\ text = <<>> /\ maxLength = 1 /\ chunks = <<>>
  /\ raw = <<>> /\ cleaned = <<>>
  /\ StreamInit
  /\ WrapInit

\* ------------------------------------------------------- RedisSessionStore
\* setSession: SETEX of both keys in one pipeline
setSession(s, u, st) ==
  /\ sessKey' = [sessKey EXCEPT ![s] = st]
  /\ userKey' = [userKey EXCEPT ![u] = s]

\* deleteSession: DEL of both keys in one pipeline
deleteSession(s, u) ==
  /\ sessKey' = [sessKey EXCEPT ![s] = NoRec]
  /\ userKey' = [userKey EXCEPT ![u] = NoSid]

\* -------------------------------------------------------- ClaudeCodeWrapper
\* isAlive
isAlive(s) == pty[s] /\ wstatus[s] # "terminated"

\* spawn, success: the pty exists, the listeners are registered, the ready
\* promotion is scheduled
wrapperSpawn(s) ==
  /\ pty' = [pty EXCEPT ![s] = TRUE]
  /\ wstatus' = [wstatus EXCEPT ![s] = "starting"]
  /\ readyTimer' = [readyTimer EXCEPT ![s] = TRUE]
  /\ osProc' = [osProc EXCEPT ![s] = "running"]

\* spawn, pty.spawn throws: status terminated, ClaudeSpawnError
wrapperSpawnThrows(s) ==
  /\ wstatus' = [wstatus EXCEPT ![s] = "terminated"]
  /\ UNCHANGED <<pty, readyTimer, osProc>>

\* sendInput: a logged no-op on a dead wrapper, else status busy and a write
wrapperSendInput(s) ==
  IF ~pty[s] \/ wstatus[s] = "terminated"
  THEN /\ wrote' = NoWrite
       /\ UNCHANGED wstatus
  ELSE /\ wrote' = <<s, 1>>
       /\ wstatus' = [wstatus EXCEPT ![s] = "busy"]

\* sendControl: a no-op on a dead wrapper, else one write of the key
wrapperSendControl(s) ==
  IF ~pty[s] \/ wstatus[s] = "terminated"
  THEN wrote' = NoWrite
  ELSE wrote' = <<s, 1>>

\* terminate() on a wrapper that has a pty, up to its await: cancel the
\* ready timer, write ETX and the exit directive (the forced-kill timer and
\* the once('exit') listener are the caller's entry in termWait)
wrapperTerminate(s) ==
  /\ readyTimer' = [readyTimer EXCEPT ![s] = FALSE]
  /\ wrote' = <<s, 2>>

\* a forced kill that leaves the status as it was
wrapperForceKill_keepsStatus(s) ==
  /\ IF pty[s]
     THEN /\ pty' = [pty EXCEPT ![s] = FALSE]
          /\ osProc' = [osProc EXCEPT ![s] = "killed"]
     ELSE UNCHANGED <<pty, osProc>>
  /\ UNCHANGED wstatus

\* the forced-kill timer of a pending terminate() fires
wrapperForceKill(s) ==
  /\ IF pty[s]
     THEN /\ pty' = [pty EXCEPT ![s] = FALSE]
          /\ osProc' = [osProc EXCEPT ![s] = "killed"]
     ELSE UNCHANGED <<pty, osProc>>
  /\ wstatus' = [wstatus EXCEPT ![s] = "terminated"]

\* handleExit: status terminated, timers cancelled, 'exit' emitted, pty null
wrapperHandleExit(s) ==
  /\ osProc' = [osProc EXCEPT ![s] = "exited"]
  /\ wstatus' = [wstatus EXCEPT ![s] = "terminated"]
  /\ readyTimer' = [readyTimer EXCEPT ![s] = FALSE]
  /\ pty' = [pty EXCEPT ![s] = FALSE]

\* ---------------------------------------------------------- SessionManager
\* a liveness test that takes only a ready wrapper for alive
ProcessLive_ready(s) == s \in procs /\ pty[s] /\ wstatus[s] = "ready"

\* the liveness test of getSessionForUser (lines 38-39)
ProcessLive(s) == s \in procs /\ isAlive(s)

\* the timers of session s still to run after clearTimeout of the one in
\* the map
clearedTimer(s) == IF timerMap[s] = "armed" THEN nTimers[s] - 1 ELSE nTimers[s]

\* a cleanupSession that leaves the inactivity timer armed
cleanupSession_keepsTimer(s, u) ==
  /\ UNCHANGED <<timerMap, nTimers>>
  /\ procs' = procs \ {s}
  /\ deleteSession(s, u)

\* cleanupSession up to its await: clear and drop the timer, drop the
\* process reference, send the DEL pipeline
cleanupSession(s, u) ==
  /\ timerMap' = [timerMap EXCEPT ![s] = "none"]
  /\ nTimers' = [nTimers EXCEPT ![s] = clearedTimer(s)]
  /\ procs' = procs \ {s}
  /\ deleteSession(s, u)

\* a resetSessionTimeout that leaves the timer before it running
resetSessionTimeout_noClear(s) ==
  /\ timerMap' = [timerMap EXCEPT ![s] = "armed"]
  /\ nTimers' = [nTimers EXCEPT ![s] = @ + 1]

\* resetSessionTimeout: clear the existing timer, arm a new one
resetSessionTimeout(s) ==
  /\ timerMap' = [timerMap EXCEPT ![s] = "armed"]
  /\ nTimers' = [nTimers EXCEPT ![s] = clearedTimer(s) + 1]

\* a call ends with result r and touches nothing
returns(t, r, q) ==
  /\ Observe(Ret(t, r), NoWrite, NoEvent, NoEvent)
  /\ storeQ' = q
  /\ UNCHANGED <<storeVars, termWait, mgrVars, wrapVars, obsVars, ctlVars>>

\* createSession, lines 51-53: throw SessionExistsError
throwSessionExists(t, q) == returns(t, "SessionExists", q)

\* createSession, lines 108-117: spawn() succeeded, setSession is sent
spawned(t, s, q) ==
  /\ wrapperSpawn(s)
  /\ setSession(s, t.user, "starting")
  /\ storeQ' = Append(q, Task("create", t.user, s, "set", "starting", "none"))
  /\ Quiet

\* a createSession that persists the session before it spawns
spawnFailed_persisted(t, s, q) ==
  /\ wrapperSpawnThrows(s)
  /\ Observe([Ret(t, "SpawnError") EXCEPT !.sid = s], NoWrite, NoEvent, NoEvent)
  /\ storeQ' = q
  /\ setSession(s, t.user, "starting")

\* createSession, lines 110-113: spawn() threw, the error is rethrown
spawnFailed(t, s, q) ==
  /\ wrapperSpawnThrows(s)
  /\ Observe([Ret(t, "SpawnError") EXCEPT !.sid = s], NoWrite, NoEvent, NoEvent)
  /\ storeQ' = q
  /\ UNCHANGED storeVars

\* createSession after getSessionForUser has returned st (NoRec: no session)
createSession(t, st, q) ==
  IF st # NoRec
  THEN throwSessionExists(t, q)
  ELSE LET s == nextSid IN
       /\ s \in Sids
       /\ nextSid' = s + 1
       /\ sessUser' = [sessUser EXCEPT ![s] = t.user]
       /\ spawned(t, s, q) \/ spawnFailed(t, s, q)
       /\ UNCHANGED <<termWait, mgrVars, obsVars, nCalls, nElapsed>>

\* a sendInput that swallows the missing session
throwNoSession_swallowed(t, q) == returns(t, "sent", q)

\* sendInput, lines 141-148: throw NoSessionError
throwNoSession(t, q) == returns(t, "NoSession", q)

\* sendInput after getSessionForUser has returned st
sendInput(t, st, q) ==
  IF st = NoRec \/ t.sid \notin procs \/ ~isAlive(t.sid)
  THEN throwNoSession(t, q)
  ELSE \* claude.sendInput(text); session.status = 'active'; setSession
       /\ wrapperSendInput(t.sid)
       /\ setSession(t.sid, t.user, "active")
       /\ storeQ' = Append(q, [t EXCEPT !.pc = "set", !.st = "active"])
       /\ last' = NoCall /\ logged' = NoEvent /\ emitted' = NoEvent
       /\ UNCHANGED <<termWait, mgrVars, pty, readyTimer, osProc, obsVars, ctlVars>>

\* a sendControl that throws as sendInput does
refuseControl_throws(t, q) == returns(t, "NoSession", q)

\* sendControl, lines 173 and 176: return false
refuseControl(t, q) == returns(t, "false", q)

\* sendControl after getSessionForUser has returned st
sendControl(t, st, q) ==
  IF st = NoRec \/ t.sid \notin procs \/ ~isAlive(t.sid)
  THEN refuseControl(t, q)
  ELSE \* claude.sendControl(key); status 'active' on y/n; setSession
       LET st2 == IF t.arg \in {"y", "n"} THEN "active" ELSE st IN
       /\ wrapperSendControl(t.sid)
       /\ setSession(t.sid, t.user, st2)
       /\ storeQ' = Append(q, [t EXCEPT !.pc = "set", !.st = st2])
       /\ last' = NoCall /\ logged' = NoEvent /\ emitted' = NoEvent
       /\ UNCHANGED <<termWait, mgrVars, wrapVars, obsVars, ctlVars>>

\* terminateSession after getSessionForUser has returned st; also the body
\* of the inactivity-timer callback, which calls terminateSession
terminateSession(t, st, q) ==
  IF st = NoRec
  THEN returns(t, "false", q)
  ELSE IF t.sid \in procs /\ pty[t.sid]
  THEN \* await claude.terminate()
       /\ wrapperTerminate(t.sid)
       /\ termWait' = Append(termWait, [t EXCEPT !.pc = "term"])
       /\ storeQ' = q
       /\ last' = NoCall /\ logged' = NoEvent /\ emitted' = NoEvent
       /\ UNCHANGED <<storeVars, mgrVars, pty, wstatus, osProc, obsVars, ctlVars>>
  ELSE \* no wrapper, or terminate() returned at once: cleanupSession
       /\ cleanupSession(t.sid, t.user)
       /\ storeQ' = Append(q, [t EXCEPT !.pc = "del"])
       /\ Quiet
       /\ UNCHANGED <<termWait, wrapVars, obsVars, ctlVars>>

\* the caller of getSessionForUser resumes with its result
Continue(t, st, q) ==
  CASE t.kind = "create" -> createSession(t, st, q)
    [] t.kind = "input" -> sendInput(t, st, q)
    [] t.kind = "control" -> sendControl(t, st, q)
    [] t.kind \in {"terminate", "timeout"} -> terminateSession(t, st, q)

\* ------------------------------------------------------------ user calls
UserKinds == {"create", "input", "control", "terminate"}
InFlight ==
  Cardinality({i \in 1..Len(storeQ) : storeQ[i].kind \in UserKinds})
  + Cardinality({i \in 1..Len(termWait) : termWait[i].kind \in UserKinds})

\* a public method is called: getSessionForUser sends GET session:user:<u>
Call(kind, u, arg) ==
  /\ nCalls < MaxCalls
  /\ InFlight < MaxInFlight
  /\ nCalls' = nCalls + 1
  /\ storeQ' = Append(storeQ, Task(kind, u, userKey[u], "g1", NoRec, arg))
  /\ Quiet
  /\ UNCHANGED <<storeVars, termWait, mgrVars, wrapVars, obsVars, sessUser, nextSid, nElapsed>>

\* the createSession calls that have not yet reached their spawn
Creating ==
  Cardinality({i \in 1..Len(storeQ) :
                 storeQ[i].kind = "create" /\ storeQ[i].pc \in {"g1", "g2", "g3"}})

CallCreate ==
  /\ (nextSid - 1) + Creating < MaxSessions
  /\ \E u \in Users : Call("create", u, "none")
CallInput == \E u \in Users : Call("input", u, "none")
CallControl == \E u \in Users, k \in {"y", "escape"} : Call("control", u, k)
CallTerminate == \E u \in Users : Call("terminate", u, "none")

\* ---------------------------------------------------- getSessionForUser
\* reply to getSessionIdForUser (lines 31-32)
GotSessionId ==
  /\ storeQ # <<>>
  /\ LET t == Head(storeQ) q == Tail(storeQ) IN
     /\ t.pc = "g1"
     /\ IF t.sid = NoSid
        THEN Continue(t, NoRec, q)
        ELSE \* send GET session:<id>
             /\ storeQ' = Append(q, [t EXCEPT !.pc = "g2", !.st = sessKey[t.sid]])
             /\ Quiet
             /\ UNCHANGED <<storeVars, termWait, mgrVars, wrapVars, obsVars, ctlVars>>

\* reply to getSession (lines 34-35) and the liveness test (lines 38-45)
GotSession ==
  /\ storeQ # <<>>
  /\ LET t == Head(storeQ) q == Tail(storeQ) IN
     /\ t.pc = "g2"
     /\ IF t.st = NoRec
        THEN Continue(t, NoRec, q)
        ELSE IF ProcessLive(t.sid)
        THEN Continue(t, t.st, q)
        ELSE \* clean up the dead session
             /\ cleanupSession(t.sid, t.user)
             /\ storeQ' = Append(q, [t EXCEPT !.pc = "g3"])
             /\ Quiet
             /\ UNCHANGED <<termWait, wrapVars, obsVars, ctlVars>>

\* reply to the deleteSession of that cleanup: return null (line 42)
CleanedDead ==
  /\ storeQ # <<>>
  /\ LET t == Head(storeQ) q == Tail(storeQ) IN
     /\ t.pc = "g3"
     /\ Continue(t, NoRec, q)

\* ------------------------------------------------ resumptions after a write
\* createSession resumes after setSession (lines 118-136)
CreateStored ==
  /\ storeQ # <<>>
  /\ LET t == Head(storeQ) IN
     /\ t.kind = "create" /\ t.pc = "set"
     /\ procs' = procs \cup {t.sid}
     /\ resetSessionTimeout(t.sid)
     /\ createdEv' = createdEv \cup {t.sid}
     /\ Observe(Ret(t, "created"), NoWrite, NoEvent, NoEvent)
     /\ storeQ' = Tail(storeQ)
     /\ UNCHANGED <<storeVars, termWait, wrapVars, nNotified, ctlVars>>

\* sendInput resumes after setSession (lines 164-168)
InputStored ==
  /\ storeQ # <<>>
  /\ LET t == Head(storeQ) IN
     /\ t.kind = "input" /\ t.pc = "set"
     /\ resetSessionTimeout(t.sid)
     /\ Observe(Ret(t, "sent"), NoWrite, NoEvent, NoEvent)
     /\ storeQ' = Tail(storeQ)
     /\ UNCHANGED <<storeVars, termWait, procs, wrapVars, obsVars, ctlVars>>

\* sendControl resumes after setSession (lines 193-194)
ControlStored ==
  /\ storeQ # <<>>
  /\ LET t == Head(storeQ) IN
     /\ t.kind = "control" /\ t.pc = "set"
     /\ resetSessionTimeout(t.sid)
     /\ Observe(Ret(t, "true"), NoWrite, NoEvent, NoEvent)
     /\ storeQ' = Tail(storeQ)
     /\ UNCHANGED <<storeVars, termWait, procs, wrapVars, obsVars, ctlVars>>

\* terminateSession resumes after cleanupSession: return true (line 209)
TerminateCleaned ==
  /\ storeQ # <<>>
  /\ LET t == Head(storeQ) IN
     /\ t.kind \in {"terminate", "timeout"} /\ t.pc = "del"
     /\ returns(t, "true", Tail(storeQ))

\* handleProcessExit resumes after cleanupSession: emit (line 244)
ExitCleaned ==
  /\ storeQ # <<>>
  /\ LET t == Head(storeQ) IN
     /\ t.kind = "exit" /\ t.pc = "del"
     /\ nNotified' = [nNotified EXCEPT ![t.sid] = @ + 1]
     /\ Observe(NoCall, NoWrite, NoEvent, <<t.sid, t.arg>>)
     /\ storeQ' = Tail(storeQ)
     /\ UNCHANGED <<storeVars, termWait, mgrVars, wrapVars, createdEv, ctlVars>>

\* ------------------------------------------------------- wrapper events
\* the one-shot ready promotion of spawn() fires (wrapper lines 227-233);
\* the manager's 'ready' listener calls updateSessionStatus(id, 'active'),
\* which sends GET session:<id>
ReadyFire ==
  \E s \in Sids :
    /\ readyTimer[s]
    /\ readyTimer' = [readyTimer EXCEPT ![s] = FALSE]
    /\ IF wstatus[s] = "starting"
       THEN /\ wstatus' = [wstatus EXCEPT ![s] = "ready"]
            /\ storeQ' = Append(storeQ, Task("status", sessUser[s], s, "u_get", sessKey[s], "active"))
       ELSE UNCHANGED <<wstatus, storeQ>>
    /\ Quiet
    /\ UNCHANGED <<storeVars, termWait, mgrVars, pty, osProc, obsVars, ctlVars>>

\* updateSessionStatus resumes after getSession (lines 264-273): the record
\* is written back with the new status.  Nothing follows its last await, so
\* the call ends here.
StatusGot ==
  /\ storeQ # <<>>
  /\ LET t == Head(storeQ) IN
     /\ t.kind = "status" /\ t.pc = "u_get"
     /\ IF t.st # NoRec
        THEN setSession(t.sid, t.user, t.arg)
        ELSE UNCHANGED storeVars
     /\ storeQ' = Tail(storeQ)
     /\ Quiet
     /\ UNCHANGED <<termWait, mgrVars, wrapVars, obsVars, ctlVars>>

\* the callers suspended in terminate() of wrapper s, oldest first, resumed
RECURSIVE Waiting(_, _)
Waiting(w, s) ==
  IF w = <<>> THEN <<>>
  ELSE IF Head(w).sid = s /\ Head(w).kind # "shutdown"
       THEN <<[Head(w) EXCEPT !.pc = "del"]>> \o Waiting(Tail(w), s)
       ELSE Waiting(Tail(w), s)

\* the callers suspended in terminate() of other wrappers
RECURSIVE NotWaiting(_, _)
NotWaiting(w, s) ==
  IF w = <<>> THEN <<>>
  ELSE IF Head(w).sid = s
       THEN NotWaiting(Tail(w), s)
       ELSE <<Head(w)>> \o NotWaiting(Tail(w), s)

\* handleProcessExit up to its await (lines 239-242): logSessionEnd, then
\* cleanupSession up to its own await
handleProcessExit(s, u, code) ==
  /\ Observe(NoCall, NoWrite, <<s, code>>, NoEvent)
  /\ cleanupSession(s, u)

\* pty.onExit: wrapper.handleExit runs and emits 'exit'.  Its listeners run
\* in registration order: the manager's handleProcessExit, then the
\* once('exit') listener of every pending terminate(), whose callers resume
\* and run cleanupSession as well (a repeat of the same deletions).
Exit ==
  \E s \in Sids, code \in ExitCodes :
    /\ osProc[s] \in {"running", "killed"}
    /\ wrapperHandleExit(s)
    /\ handleProcessExit(s, sessUser[s], code)
    /\ storeQ' = Append(storeQ, Task("exit", sessUser[s], s, "del", NoRec, code))
                   \o Waiting(termWait, s)
    /\ termWait' = NotWaiting(termWait, s)
    /\ UNCHANGED <<obsVars, ctlVars>>

\* the forced-kill timer of one pending terminate() fires (wrapper lines
\* 351-358); its caller resumes and runs cleanupSession up to its await
ForceKill ==
  \E i \in 1..Len(termWait) :
    LET t == termWait[i] IN
    /\ t.kind # "shutdown"
    /\ wrapperForceKill(t.sid)
    /\ termWait' = [j \in 1..(Len(termWait) - 1) |->
                      IF j < i THEN termWait[j] ELSE termWait[j + 1]]
    /\ cleanupSession(t.sid, t.user)
    /\ storeQ' = Append(storeQ, [t EXCEPT !.pc = "del"])
    /\ Quiet
    /\ UNCHANGED <<readyTimer, obsVars, ctlVars>>

\* ----------------------------------------------------- inactivity timeout
\* the inactivity timer fires (lines 285-291): GET session:<id> is sent.
\* The window is at least one minute, so the 2 s ready timer is long gone.
InactivityFire ==
  \E s \in Sids :
    /\ timerMap[s] = "armed"
    /\ ~readyTimer[s]
    /\ nElapsed < MaxElapsed
    /\ nElapsed' = nElapsed + 1
    /\ timerMap' = [timerMap EXCEPT ![s] = "fired"]
    /\ nTimers' = [nTimers EXCEPT ![s] = @ - 1]
    /\ storeQ' = Append(storeQ, Task("timeout", sessUser[s], s, "t_get", sessKey[s], "none"))
    /\ Quiet
    /\ UNCHANGED <<storeVars, termWait, procs, wrapVars, obsVars, sessUser, nextSid, nCalls>>

\* the timer callback resumes: if the record is there, terminateSession
\* (userId), whose getSessionForUser sends GET session:user:<u>
TimeoutGot ==
  /\ storeQ # <<>>
  /\ LET t == Head(storeQ) q == Tail(storeQ) IN
     /\ t.kind = "timeout" /\ t.pc = "t_get"
     /\ IF t.st # NoRec
        THEN storeQ' = Append(q, [t EXCEPT !.pc = "g1", !.sid = userKey[t.user], !.st = NoRec])
        ELSE storeQ' = q
     /\ Quiet
     /\ UNCHANGED <<storeVars, termWait, mgrVars, wrapVars, obsVars, ctlVars>>

\* the store expires the keys of session s: both were written by the same
\* SETEX pipeline with the same TTL (the inactivity window, at least one
\* minute), so they run out together
Expire ==
  \E s \in Sids :
    /\ sessKey[s] # NoRec
    /\ ~readyTimer[s]
    /\ nElapsed < MaxElapsed
    /\ nElapsed' = nElapsed + 1
    /\ sessKey' = [sessKey EXCEPT ![s] = NoRec]
    /\ userKey' = [u \in Users |-> IF userKey[u] = s THEN NoSid ELSE userKey[u]]
    /\ Quiet
    /\ UNCHANGED <<storeQ, termWait, mgrVars, wrapVars, obsVars, sessUser, nextSid, nCalls>>

\* ------------------------------------------------------------------ spec
Next ==
  /\ \/ CallCreate \/ CallInput \/ CallControl \/ CallTerminate
     \/ GotSessionId \/ GotSession \/ CleanedDead
     \/ CreateStored \/ InputStored \/ ControlStored
     \/ TerminateCleaned \/ ExitCleaned
     \/ ReadyFire \/ StatusGot
     \/ Exit \/ ForceKill
     \/ InactivityFire \/ TimeoutGot
     \/ Expire
  /\ UNCHANGED others

Spec == Init /\ [][Next]_vars

\* The steps that happen while no inactivity window runs out.  A pending
\* terminate() resolves within its 1 s forced-kill deadline and a store reply
\* within the round trip, both far inside the window of at least one minute.
NextWithin ==
  /\ \/ CallCreate \/ CallInput \/ CallControl \/ CallTerminate
     \/ GotSessionId \/ GotSession \/ CleanedDead
     \/ CreateStored \/ InputStored \/ ControlStored
     \/ TerminateCleaned \/ ExitCleaned
     \/ ReadyFire \/ StatusGot
     \/ Exit \/ ForceKill
  /\ UNCHANGED others

\* the suspended callers whose store reply has arrived are resumed
StoreReply ==
  /\ \/ GotSessionId \/ GotSession \/ CleanedDead
     \/ CreateStored \/ InputStored \/ ControlStored
     \/ TerminateCleaned \/ ExitCleaned
     \/ StatusGot
  /\ UNCHANGED others

\* The event loop runs every continuation whose reply has arrived and fires
\* every armed timer; user calls and the subprocess's own exit are free.
SpecWithin ==
  /\ Init /\ [][NextWithin]_vars
  /\ WF_vars(StoreReply)
  /\ WF_vars(ForceKill /\ UNCHANGED others)
  /\ WF_vars(ReadyFire /\ UNCHANGED others)

\* ------------------------------------------------------------- shutdown
\* the tracked wrappers that have a pty: terminate() does not return at once
Tracked == {s \in procs : pty[s]}

\* the terminate() calls of shutdown() that are pending in w
ShutWaiters(w) == {i \in 1..Len(w) : w[i].kind = "shutdown"}

\* one suspended terminate() of shutdown() per wrapper in S
RECURSIVE ShutTasks(_)
ShutTasks(S) ==
  IF S = {} THEN <<>>
  ELSE LET s == CHOOSE x \in S : \A y \in S : x <= y IN
       <<Task("shutdown", "none", s, "term", NoRec, "none")>> \o ShutTasks(S \ {s})

\* shutdown() has returned
ShutdownReturned == [kind |-> "shutdown", user |-> "none", sid |-> NoSid, result |-> "done"]

\* shutdown() up to its await (lines 297-312): every timer is cleared and the
\* timer map emptied, then terminate() is called on every tracked wrapper.
\* A terminate() whose pty.write throws rejects (F); allSettled takes that
\* as settled.  With nothing left to wait for, the process map is cleared.
Shutdown ==
  /\ down = "no"
  /\ timerMap' = [s \in Sids |-> "none"]
  /\ nTimers' = [s \in Sids |-> clearedTimer(s)]
  /\ \E F \in SUBSET Tracked :
       LET T == Tracked \ F IN
       /\ readyTimer' = [s \in Sids |-> IF s \in Tracked THEN FALSE ELSE readyTimer[s]]
       /\ termWait' = termWait \o ShutTasks(T)
       /\ wrote' = IF T = {} THEN NoWrite
                   ELSE <<CHOOSE x \in T : \A y \in T : y <= x, 2>>
       /\ IF T = {}
          THEN procs' = {} /\ down' = "done" /\ last' = ShutdownReturned
          ELSE UNCHANGED procs /\ down' = "pending" /\ last' = NoCall
  /\ logged' = NoEvent /\ emitted' = NoEvent
  /\ UNCHANGED <<storeVars, storeQ, pty, wstatus, osProc, obsVars, ctlVars, aside>>

\* the state of shutdown() after a step that may have settled its last
\* pending terminate()
Settle ==
  IF down = "pending" /\ ShutWaiters(termWait') = {} THEN "settled" ELSE down

\* the forced-kill timer of a terminate() of shutdown() fires
ForceKillDown ==
  \E i \in ShutWaiters(termWait) :
    /\ wrapperForceKill(termWait[i].sid)
    /\ termWait' = [j \in 1..(Len(termWait) - 1) |->
                      IF j < i THEN termWait[j] ELSE termWait[j + 1]]
    /\ down' = Settle
    /\ Quiet
    /\ UNCHANGED <<storeVars, storeQ, mgrVars, readyTimer, obsVars, ctlVars, aside>>

\* shutdown() resumes from allSettled (line 313): the process map is
\* cleared.  It resumes before the event loop takes its next event.
ShutdownDone ==
  /\ down = "settled"
  /\ procs' = {}
  /\ down' = "done"
  /\ Observe(ShutdownReturned, NoWrite, NoEvent, NoEvent)
  /\ UNCHANGED <<storeVars, storeQ, termWait, timerMap, nTimers, wrapVars, obsVars,
                 ctlVars, aside>>

\* The session manager with shutdown().  index.ts stops the Slack app before
\* it calls shutdown(), so no new call starts once shutdown() has begun; the
\* calls already under way go on.
NextShut ==
  \/ /\ down = "no"
     /\ CallCreate \/ CallInput \/ CallControl \/ CallTerminate
     /\ UNCHANGED others
  \/ /\ down # "settled"
     /\ \/ GotSessionId \/ GotSession \/ CleanedDead
        \/ CreateStored \/ InputStored \/ ControlStored
        \/ TerminateCleaned \/ ExitCleaned
        \/ ReadyFire \/ StatusGot
        \/ ForceKill
        \/ InactivityFire \/ TimeoutGot
        \/ Expire
     /\ UNCHANGED others
  \/ /\ down # "settled"
     /\ Exit
     /\ down' = Settle
     /\ UNCHANGED aside
  \/ Shutdown
  \/ ForceKillDown
  \/ ShutdownDone

\* as SpecWithin: replies arrive and timers fire
ShutSpec ==
  /\ Init /\ [][NextShut]_vars
  /\ WF_vars(down # "settled" /\ StoreReply)
  /\ WF_vars(down # "settled" /\ ForceKill /\ UNCHANGED others)
  /\ WF_vars(ForceKillDown)
  /\ WF_vars(ShutdownDone)

\* ------------------------------------------- failures behind the spawn
\* createSession resumes after setSession with a rejected promise (line
\* 117; the StorageError of the store's catch clause propagates): nothing
\* of lines 118-136 runs.  pipeline.exec() rejects when the connection
\* fails, and the SETEX commands were run by the store or never reached it;
\* in the second case the keys of the new session are absent.
CreateRejected ==
  /\ storeQ # <<>>
  /\ LET t == Head(storeQ) IN
     /\ t.kind = "create" /\ t.pc = "set"
     /\ \E applied \in BOOLEAN :
          IF applied THEN UNCHANGED storeVars
          ELSE /\ sessKey' = [sessKey EXCEPT ![t.sid] = NoRec]
               /\ userKey' = [u \in Users |->
                                IF userKey[u] = t.sid THEN NoSid ELSE userKey[u]]
     /\ Observe(Ret(t, "StorageError"), NoWrite, NoEvent, NoEvent)
     /\ storeQ' = Tail(storeQ)
     /\ UNCHANGED <<termWait, mgrVars, wrapVars, obsVars, ctlVars>>

\* createSession resumes after setSession, tracks the process (line 118),
\* and logSessionStart throws its StorageError (lines 121-128, the INSERT
\* of the audit log failed): lines 131-136 do not run
CreateAuditFails ==
  /\ storeQ # <<>>
  /\ LET t == Head(storeQ) IN
     /\ t.kind = "create" /\ t.pc = "set"
     /\ procs' = procs \cup {t.sid}
     /\ Observe(Ret(t, "StorageError"), NoWrite, NoEvent, NoEvent)
     /\ storeQ' = Tail(storeQ)
     /\ UNCHANGED <<storeVars, termWait, timerMap, nTimers, wrapVars, obsVars, ctlVars>>

\* the session manager with a store and an audit log that can fail behind
\* the spawn of createSession
NextFail ==
  /\ \/ CallCreate \/ CallInput \/ CallControl \/ CallTerminate
     \/ GotSessionId \/ GotSession \/ CleanedDead
     \/ CreateStored \/ InputStored \/ ControlStored
     \/ CreateRejected \/ CreateAuditFails
     \/ TerminateCleaned \/ ExitCleaned
     \/ ReadyFire \/ StatusGot
     \/ Exit \/ ForceKill
     \/ InactivityFire \/ TimeoutGot
     \/ Expire
  /\ UNCHANGED others

FailSpec == Init /\ [][NextFail]_vars

\* ---------------------------------------------------------- tool-use prompts
\* The subprocess asks for a permission and waits for the answer: the
\* wrapper finds the prompt in its accumulator and emits 'toolUsePrompt',
\* and the manager's listener (lines 95-98) calls
\* updateSessionStatus(id, 'waiting_input'), which sends GET session:<id>.
ToolUsePrompt ==
  \E s \in Sids :
    /\ nPrompts < MaxPrompts
    /\ pty[s] /\ osProc[s] = "running"
    /\ ~prompting[s]
    /\ prompting' = [prompting EXCEPT ![s] = TRUE]
    /\ nPrompts' = nPrompts + 1
    /\ storeQ' = Append(storeQ, Task("status", sessUser[s], s, "u_get", sessKey[s],
                                     "waiting_input"))
    /\ Quiet
    /\ UNCHANGED <<storeVars, termWait, mgrVars, wrapVars, obsVars, ctlVars>>

\* the step wrote to the subprocess of session s, which answers its prompt,
\* or the subprocess runs no more
Answered(s) == wrote'[1] = s \/ osProc'[s] # "running"

\* the session manager with subprocesses that prompt
NextPrompt ==
  \/ /\ \/ CallCreate \/ CallInput \/ CallControl \/ CallTerminate
        \/ GotSessionId \/ GotSession \/ CleanedDead
        \/ CreateStored \/ InputStored \/ ControlStored
        \/ TerminateCleaned \/ ExitCleaned
        \/ ReadyFire \/ StatusGot
        \/ Exit \/ ForceKill
        \/ InactivityFire \/ TimeoutGot
        \/ Expire
     /\ prompting' = [s \in Sids |-> prompting[s] /\ ~Answered(s)]
     /\ UNCHANGED <<nPrompts, down, chunkVars, cleanVars, strVars, cwVars>>
  \/ /\ ToolUsePrompt
     /\ UNCHANGED <<down, chunkVars, cleanVars, strVars, cwVars>>

PromptSpec == Init /\ [][NextPrompt]_vars

\* ------------------------------------------------------------ chunkText
\* Text is a sequence of characters over a letter, a space and a newline.
Chars == {"a", " ", "\n"}
Whitespace == {" ", "\n"}
Texts == UNION {[1..n -> Chars] : n \in 0..MaxText}

\* String.prototype.slice(from) and slice(0, to), 0-based
SliceFrom(s, from) == SubSeq(s, from + 1, Len(s))
SliceTo(s, to) == SubSeq(s, 1, to)

\* pattern pat occurs in s at 0-based index i
OccursAt(s, pat, i) ==
  /\ i >= 0 /\ i + Len(pat) <= Len(s)
  /\ SubSeq(s, i + 1, i + Len(pat)) = pat

\* a lastIndexOf that also looks one index past from
lastIndexOf_beyond(s, pat, from) ==
  LET at == {i \in 0..(from + 1) : OccursAt(s, pat, i)} IN
  IF at = {} THEN -1 ELSE CHOOSE i \in at : \A j \in at : j <= i

\* String.prototype.lastIndexOf(pat, from): the last occurrence that starts
\* at or before index from, or -1
lastIndexOf(s, pat, from) ==
  LET at == {i \in 0..from : OccursAt(s, pat, i)} IN
  IF at = {} THEN -1 ELSE CHOOSE i \in at : \A j \in at : j <= i

\* a trimStart that trims nothing
RECURSIVE trimStart_kept(_)
trimStart_kept(s) ==
  IF s = <<>> THEN s ELSE <<Head(s)>> \o trimStart_kept(Tail(s))

\* String.prototype.trimStart
RECURSIVE trimStart(_)
trimStart(s) ==
  IF s # <<>> /\ Head(s) \in Whitespace THEN trimStart(Tail(s)) ELSE s

\* the break point of one loop iteration (lines 112-140): a paragraph break
\* past half of maxLength, else a line break or a space past 0.3 of it, else
\* a hard cut
breakPoint(remaining, max) ==
  LET paragraphBreak == lastIndexOf(remaining, <<"\n", "\n">>, max)
      lineBreak == lastIndexOf(remaining, <<"\n">>, max)
      spaceBreak == lastIndexOf(remaining, <<" ">>, max)
  IN IF 2 * paragraphBreak > max THEN paragraphBreak
     ELSE IF 10 * lineBreak > 3 * max THEN lineBreak
     ELSE IF 10 * spaceBreak > 3 * max THEN spaceBreak
     ELSE max

\* a loop that pushes what remains without looking whether anything does
RECURSIVE chunkLoop_emptyTail(_, _, _)
chunkLoop_emptyTail(remaining, max, acc) ==
  IF Len(remaining) <= max THEN Append(acc, remaining)
  ELSE LET bp == breakPoint(remaining, max) IN
       chunkLoop_emptyTail(trimStart(SliceFrom(remaining, bp)), max,
                           Append(acc, SliceTo(remaining, bp)))

\* the while loop (lines 106-144)
RECURSIVE chunkLoop(_, _, _)
chunkLoop(remaining, max, acc) ==
  IF Len(remaining) = 0 THEN acc
  ELSE IF Len(remaining) <= max THEN Append(acc, remaining)
  ELSE LET bp == breakPoint(remaining, max) IN
       chunkLoop(trimStart(SliceFrom(remaining, bp)), max,
                 Append(acc, SliceTo(remaining, bp)))

chunkText(t, max) ==
  IF Len(t) <= max THEN <<t>> ELSE chunkLoop(t, max, <<>>)

\* any text and any positive maximum
ChunkInit ==
  /\ MgrInit
  /\ down = "no"
  /\ text \in Texts
  /\ maxLength \in 1..MaxChunkLength
  /\ chunks = <<>>
  /\ raw = <<>> /\ cleaned = <<>>
  /\ StreamInit
  /\ WrapInit

\* chunkText is called
ChunkCall ==
  /\ chunks = <<>>
  /\ chunks' = chunkText(text, maxLength)
  /\ UNCHANGED <<mgrAll, down, text, maxLength, cleanVars, strVars, cwVars, promptVars>>

ChunkSpec == ChunkInit /\ [][ChunkCall]_vars

\* ------------------------------------------------- cleanTerminalOutput
\* The characters the function tells apart: escape, the two brackets, the
\* final bytes m and P, a letter that is no final byte, bell, NUL, carriage
\* return, line feed and the backslash.
Bytes == {"ESC", "[", "]", "m", "P", "a", "BEL", "NUL", "CR", "LF", "\\"}
Raws == UNION {[1..n -> Bytes] : n \in 0..MaxRaw}

\* the length of the longest prefix of s made of characters of set
RECURSIVE Run(_, _)
Run(s, set) == IF s # <<>> /\ Head(s) \in set THEN 1 + Run(Tail(s), set) ELSE 0

\* the expression of strip-ansi on these characters: escape, any brackets,
\* then either letters up to a bell, or one final byte
ansiMatch(s) ==
  IF s = <<>> \/ Head(s) # "ESC" THEN 0
  ELSE LET b == 1 + Run(Tail(s), {"[", "]"})
           l == Run(SubSeq(s, b + 1, Len(s)), {"m", "P", "a"})
       IN IF b + l < Len(s) /\ s[b + l + 1] = "BEL" THEN b + l + 1
          ELSE IF b < Len(s) /\ s[b + 1] \in {"m", "P"} THEN b + 1
          ELSE 0

\* /\r(?!\n)/
loneCR(s) ==
  IF s # <<>> /\ Head(s) = "CR" /\ (Len(s) = 1 \/ s[2] # "LF") THEN 1 ELSE 0

\* /\0/
nulByte(s) == IF s # <<>> /\ Head(s) = "NUL" THEN 1 ELSE 0

\* /\x1b\][^\x07]*\x07/
oscMatch(s) ==
  IF Len(s) >= 2 /\ s[1] = "ESC" /\ s[2] = "]"
  THEN LET n == Run(SubSeq(s, 3, Len(s)), Bytes \ {"BEL"})
       IN IF 2 + n < Len(s) THEN 2 + n + 1 ELSE 0
  ELSE 0

\* /\x1bP[^\x1b]*\x1b\\/
dcsMatch(s) ==
  IF Len(s) >= 2 /\ s[1] = "ESC" /\ s[2] = "P"
  THEN LET n == Run(SubSeq(s, 3, Len(s)), Bytes \ {"ESC"})
       IN IF 2 + n + 1 < Len(s) /\ s[2 + n + 2] = "\\" THEN 2 + n + 2 ELSE 0
  ELSE 0

\* the length of the match of an expression at the start of s, 0 for none
matchLength(re, s) ==
  CASE re = "ansi" -> ansiMatch(s)
    [] re = "loneCR" -> loneCR(s)
    [] re = "nulByte" -> nulByte(s)
    [] re = "osc" -> oscMatch(s)
    [] re = "dcs" -> dcsMatch(s)

\* String.prototype.replace(re, '') with a global expression: left to right,
\* the match at the earliest position is dropped and the search goes on
\* behind it (rest is a function, so that its argument is worked out once)
RECURSIVE Remove(_, _)
Remove(t, re) ==
  LET rest[s \in {t}] ==
        IF s = <<>> THEN s
        ELSE IF matchLength(re, s) > 0
             THEN Remove(SubSeq(s, matchLength(re, s) + 1, Len(s)), re)
             ELSE <<Head(s)>> \o Remove(Tail(s), re)
  IN rest[t]

stripAnsi(s) == Remove(s, "ansi")

\* replace(/\n{3,}/g, '\n\n')
RECURSIVE collapseNewlines(_)
collapseNewlines(s) ==
  IF s = <<>> THEN s
  ELSE LET n == Run(s, {"LF"})
       IN IF n >= 3 THEN <<"LF", "LF">> \o collapseNewlines(SubSeq(s, n + 1, Len(s)))
          ELSE <<Head(s)>> \o collapseNewlines(Tail(s))

\* String.prototype.trim: line feed and carriage return are white space
RECURSIVE trimEnd(_)
trimEnd(s) ==
  IF s # <<>> /\ s[Len(s)] \in {"CR", "LF"} THEN trimEnd(SubSeq(s, 1, Len(s) - 1)) ELSE s

trim(s) == trimEnd(SubSeq(s, Run(s, {"CR", "LF"}) + 1, Len(s)))

cleanTerminalOutput(s) ==
  trim(collapseNewlines(Remove(Remove(Remove(Remove(stripAnsi(s),
       "loneCR"), "nulByte"), "osc"), "dcs")))

\* any raw text
CleanInit ==
  /\ MgrInit
  /\ down = "no"
  /\ text = <<>> /\ maxLength = 1 /\ chunks = <<>>
  /\ raw \in Raws
  /\ cleaned = <<>>
  /\ StreamInit
  /\ WrapInit

\* cleanTerminalOutput is called, first on the raw text and then on what
\* the call before returned
CleanCall ==
  /\ Len(cleaned) < 2
  /\ cleaned' = Append(cleaned,
        cleanTerminalOutput(IF cleaned = <<>> THEN raw ELSE cleaned[Len(cleaned)]))
  /\ UNCHANGED <<mgrAll, down, chunkVars, raw, strVars, cwVars, promptVars>>

CleanSpec == CleanInit /\ [][CleanCall]_vars

\* ------------------------------------------------------- ThreadStreamer
\* One streamer and the thread it posts to.  A request to the destination is
\* awaited; the destination acts on it and answers in the step that resumes
\* the caller, and the requests of different callers are answered in any
\* order.  chat.update may fail because the unit is gone (message_not_found);
\* every request may fail for another reason.
AppendTexts == {<<"a", "b">>, <<" ">>}
PromptText == <<"p">>
StatusText == <<"s">>

Outcomes(pc) ==
  IF pc = "update" THEN {"ok", "message_not_found", "error"} ELSE {"ok", "error"}

\* !this.buffer.trim()
blank(s) == trimStart(s) = <<>>

\* a flush that still updates in place when five units were delivered
flushBegin_sixthUnit(buf, ts, count) ==
  IF blank(buf) THEN [pc |-> "return", chunks |-> <<>>, ts |-> 0]
  ELSE LET cs == chunkText(buf, FlushMax) IN
       IF ts # 0 /\ Len(cs) = 1 /\ count <= UpdateLimit
       THEN [pc |-> "update", chunks |-> cs, ts |-> ts]
       ELSE [pc |-> "post", chunks |-> cs, ts |-> 0]

\* flush() up to its first await: nothing to do ("return"), or the request
\* it sends first
flushBegin(buf, ts, count) ==
  IF blank(buf) THEN [pc |-> "return", chunks |-> <<>>, ts |-> 0]
  ELSE LET cs == chunkText(buf, FlushMax) IN
       IF ts # 0 /\ Len(cs) = 1 /\ count < UpdateLimit
       THEN [pc |-> "update", chunks |-> cs, ts |-> ts]
       ELSE [pc |-> "post", chunks |-> cs, ts |-> 0]

\* a call suspended on its request: who began it, whether finalize has a
\* status text, the request awaited (pc), the chunks of the flush, the index
\* of the loop of lines 66-75 (1-based), the unit an update names, and how
\* often the flush called itself
Flight(by, st, b, tries) ==
  [by |-> by, st |-> st, pc |-> b.pc, chunks |-> b.chunks, i |-> 0, ts |-> b.ts,
   tries |-> tries]

\* the timers still to run after clearTimeout(this.debounceTimer)
cleared == IF debounceTimer = "armed" THEN pending - 1 ELSE pending

Event(op, by, pc, out, sent, tries) ==
  [op |-> op, by |-> by, pc |-> pc, out |-> out, sent |-> sent, tries |-> tries]

\* an append that leaves the timer before it running
append_noClear(t) ==
  /\ nOps < MaxOps
  /\ nOps' = nOps + 1
  /\ IF isFinalized THEN UNCHANGED <<buffer, debounceTimer, pending, burst>>
     ELSE /\ buffer' = buffer \o t
          /\ pending' = pending + 1
          /\ debounceTimer' = "armed"
          /\ burst' = burst \o t
  /\ ev' = Event("append", "none", "none", "none", "none", 0)
  /\ UNCHANGED <<lastMessageTs, isFinalized, messageCount, flights, thread>>

\* append(text)
append(t) ==
  /\ nOps < MaxOps
  /\ nOps' = nOps + 1
  /\ IF isFinalized THEN UNCHANGED <<buffer, debounceTimer, pending, burst>>
     ELSE /\ buffer' = buffer \o t
          /\ pending' = cleared + 1
          /\ debounceTimer' = "armed"
          /\ burst' = burst \o t
  /\ ev' = Event("append", "none", "none", "none", "none", 0)
  /\ UNCHANGED <<lastMessageTs, isFinalized, messageCount, flights, thread>>

\* a debounce timer runs out: the callback of lines 31-35 calls flush().  The
\* timer is the one the handle names ("held") or one set earlier and never
\* cleared ("stale").
TimerFire ==
  /\ pending > 0
  /\ Len(flights) < MaxFlights
  /\ \E h \in {"held", "stale"} :
       /\ h = "held" => debounceTimer = "armed"
       /\ h = "stale" => pending > (IF debounceTimer = "armed" THEN 1 ELSE 0)
       /\ debounceTimer' = IF h = "held" THEN "fired" ELSE debounceTimer
  /\ pending' = pending - 1
  /\ LET b == flushBegin(buffer, lastMessageTs, messageCount) IN
       /\ flights' = IF b.pc = "return" THEN flights
                     ELSE Append(flights, Flight("timer", FALSE, b, 0))
       /\ ev' = Event("fire", "timer", "none", "none",
                      IF b.pc = "return" THEN "none" ELSE b.pc, 0)
  /\ burst' = <<>>
  /\ UNCHANGED <<buffer, lastMessageTs, isFinalized, messageCount, thread, nOps>>

\* finalize(status): st says whether a status text is given
finalize(st) ==
  /\ nOps < MaxOps
  /\ Len(flights) < MaxFlights
  /\ nOps' = nOps + 1
  /\ debounceTimer' = "none"
  /\ pending' = cleared
  /\ burst' = <<>>
  /\ LET b == flushBegin(buffer, lastMessageTs, messageCount) IN
       IF b.pc = "return"
       THEN /\ isFinalized' = TRUE
            /\ buffer' = <<>>
            /\ flights' = IF st THEN Append(flights,
                               [by |-> "finalize", st |-> st, pc |-> "status",
                                chunks |-> <<StatusText>>, i |-> 0, ts |-> 0, tries |-> 0])
                          ELSE flights
            /\ ev' = Event("finalize", "finalize", "none", "none",
                           IF st THEN "status" ELSE "none", 0)
       ELSE /\ flights' = Append(flights, Flight("finalize", st, b, 0))
            /\ ev' = Event("finalize", "finalize", "none", "none", b.pc, 0)
            /\ UNCHANGED <<isFinalized, buffer>>
  /\ UNCHANGED <<lastMessageTs, messageCount, thread>>

\* sendImmediate(text)
sendImmediate ==
  /\ nOps < MaxOps
  /\ Len(flights) < MaxFlights
  /\ nOps' = nOps + 1
  /\ flights' = Append(flights,
        [by |-> "immediate", st |-> FALSE, pc |-> "imm", chunks |-> <<PromptText>>,
         i |-> 0, ts |-> 0, tries |-> 0])
  /\ ev' = Event("immediate", "immediate", "none", "none", "imm", 0)
  /\ UNCHANGED <<buffer, lastMessageTs, debounceTimer, isFinalized, messageCount,
                 pending, thread, burst>>

\* reset()
reset ==
  /\ nOps < MaxOps
  /\ nOps' = nOps + 1
  /\ buffer' = <<>>
  /\ lastMessageTs' = 0
  /\ isFinalized' = FALSE
  /\ messageCount' = 0
  /\ debounceTimer' = "none"
  /\ pending' = cleared
  /\ burst' = <<>>
  /\ ev' = Event("reset", "none", "none", "none", "none", 0)
  /\ UNCHANGED <<flights, thread>>

\* a retry that keeps the remembered unit
flushAgain_sameUnit == flushBegin(buffer, lastMessageTs, messageCount)

\* the flush() of the catch clause, called once lastMessageTs is null
flushAgain == flushBegin(buffer, 0, messageCount)

\* a failure of the forced flush that ends finalize() where it stands
Reply_rejects(k, out) ==
  LET f == flights[k]
      ok == out = "ok"
      content == f.chunks[Len(f.chunks)]
      posted == CASE f.pc \in {"post", "update"} -> content
                  [] f.pc = "chunk" -> f.chunks[f.i]
                  [] OTHER -> f.chunks[1]
      retry == f.pc = "update" /\ out = "message_not_found" /\ lastMessageTs # 0
      again == flushAgain
      next == IF f.pc = "post" /\ ok /\ Len(f.chunks) > 1
                THEN [f EXCEPT !.pc = "chunk", !.i = 1]
              ELSE IF f.pc = "chunk" /\ ok /\ f.i < Len(f.chunks) - 1
                THEN [f EXCEPT !.i = f.i + 1]
              ELSE IF retry /\ again.pc # "return"
                THEN Flight(f.by, f.st, again, f.tries + 1)
              ELSE [f EXCEPT !.pc = "return"]
      flushOver == f.pc \in {"update", "post", "chunk"} /\ next.pc = "return"
      finalizeOn == flushOver /\ f.by = "finalize" /\ ok
      after == IF finalizeOn /\ f.st
                 THEN [f EXCEPT !.pc = "status", !.chunks = <<StatusText>>]
               ELSE next
  IN
  /\ thread' = IF ~ok THEN thread
               ELSE IF f.pc = "update" THEN [thread EXCEPT ![f.ts] = content]
               ELSE Append(thread, posted)
  /\ lastMessageTs' = IF f.pc = "post" /\ ok THEN Len(thread) + 1
                      ELSE IF retry THEN 0
                      ELSE lastMessageTs
  /\ messageCount' = IF ok /\ f.pc \in {"post", "chunk", "imm"}
                     THEN messageCount + 1 ELSE messageCount
  /\ isFinalized' = (isFinalized \/ finalizeOn)
  /\ buffer' = IF finalizeOn THEN <<>> ELSE buffer
  /\ flights' = IF after.pc = "return"
                THEN SubSeq(flights, 1, k - 1) \o SubSeq(flights, k + 1, Len(flights))
                ELSE [flights EXCEPT ![k] = after]
  /\ ev' = Event("reply", f.by, f.pc, out,
                 IF after.pc = "return" THEN "none" ELSE after.pc,
                 IF retry THEN f.tries + 1 ELSE f.tries)
  /\ UNCHANGED <<debounceTimer, pending, nOps, burst>>

\* The destination answers the request of flights[k] with out, and the call
\* runs on to its next request or to its end: the rest of flush with its
\* catch and the flush() it calls there, and behind a flush that finalize
\* awaited the rest of finalize.
Reply(k, out) ==
  LET f == flights[k]
      ok == out = "ok"
      content == f.chunks[Len(f.chunks)]
      posted == CASE f.pc \in {"post", "update"} -> content
                  [] f.pc = "chunk" -> f.chunks[f.i]
                  [] OTHER -> f.chunks[1]
      retry == f.pc = "update" /\ out = "message_not_found" /\ lastMessageTs # 0
      again == flushAgain
      next == IF f.pc = "post" /\ ok /\ Len(f.chunks) > 1
                THEN [f EXCEPT !.pc = "chunk", !.i = 1]
              ELSE IF f.pc = "chunk" /\ ok /\ f.i < Len(f.chunks) - 1
                THEN [f EXCEPT !.i = f.i + 1]
              ELSE IF retry /\ again.pc # "return"
                THEN Flight(f.by, f.st, again, f.tries + 1)
              ELSE [f EXCEPT !.pc = "return"]
      flushOver == f.pc \in {"update", "post", "chunk"} /\ next.pc = "return"
      finalizeOn == flushOver /\ f.by = "finalize"
      after == IF finalizeOn /\ f.st
                 THEN [f EXCEPT !.pc = "status", !.chunks = <<StatusText>>]
               ELSE next
  IN
  /\ thread' = IF ~ok THEN thread
               ELSE IF f.pc = "update" THEN [thread EXCEPT ![f.ts] = content]
               ELSE Append(thread, posted)
  /\ lastMessageTs' = IF f.pc = "post" /\ ok THEN Len(thread) + 1
                      ELSE IF retry THEN 0
                      ELSE lastMessageTs
  /\ messageCount' = IF ok /\ f.pc \in {"post", "chunk", "imm"}
                     THEN messageCount + 1 ELSE messageCount
  /\ isFinalized' = (isFinalized \/ finalizeOn)
  /\ buffer' = IF finalizeOn THEN <<>> ELSE buffer
  /\ flights' = IF after.pc = "return"
                THEN SubSeq(flights, 1, k - 1) \o SubSeq(flights, k + 1, Len(flights))
                ELSE [flights EXCEPT ![k] = after]
  /\ ev' = Event("reply", f.by, f.pc, out,
                 IF after.pc = "return" THEN "none" ELSE after.pc,
                 IF retry THEN f.tries + 1 ELSE f.tries)
  /\ UNCHANGED <<debounceTimer, pending, nOps, burst>>

NextStream ==
  /\ \/ \E t \in AppendTexts : append(t)
     \/ TimerFire
     \/ \E st \in BOOLEAN : finalize(st)
     \/ sendImmediate
     \/ reset
     \/ \E k \in 1..Len(flights) : \E out \in Outcomes(flights[k].pc) : Reply(k, out)
  /\ UNCHANGED <<mgrAll, down, chunkVars, cleanVars, cwVars, promptVars>>

StreamSpec == Init /\ [][NextStream]_vars

\* The streamer after n calls of sendImmediate, each answered before the
\* next: n units in the thread and counted, nothing else touched.
PostedInit ==
  /\ MgrInit
  /\ down = "no"
  /\ text = <<>> /\ maxLength = 1 /\ chunks = <<>>
  /\ raw = <<>> /\ cleaned = <<>>
  /\ \E n \in 0..UpdateLimit :
       /\ messageCount = n
       /\ thread = [i \in 1..n |-> PromptText]
  /\ buffer = <<>>
  /\ lastMessageTs = 0
  /\ debounceTimer = "none"
  /\ isFinalized = FALSE
  /\ pending = 0
  /\ flights = <<>>
  /\ nOps = 0
  /\ burst = <<>>
  /\ ev = Idle
  /\ WrapInit

PostedSpec == PostedInit /\ [][NextStream]_vars

\* ------------------------------------------ ClaudeCodeWrapper in detail
\* One wrapper with its accumulator, its timers and the subprocesses behind
\* it.  Its methods are called at any time; the subprocess writes and exits
\* when it likes.  The listeners of its events do not call back into it.
DataTexts == {<<"[", "y", "/">>, <<"N", "]">>, <<"LF">>, <<"a">>, <<"ESC", "[", "m">>}

\* the /i flag, on the letters of these texts
lower(c) == IF c = "N" THEN "n" ELSE IF c = "Y" THEN "y" ELSE c

\* detectToolUsePrompt: of its four expressions only /\[y\/n\]/i can match
\* a text of these characters (the others need letters the texts lack)
detectToolUsePrompt(t) ==
  \E i \in 1..(Len(t) - 4) :
    [j \in 1..5 |-> lower(t[i + j - 1])] = <<"[", "y", "/", "n", "]">>

\* isAlive() for a given handle and status
aliveWith(h, st) == h /\ st # "terminated"

\* the output timers still to run after clearTimeout(this.debounceTimer)
clearedOutput == IF outputTimer = "armed" THEN outputPending - 1 ELSE outputPending

\* the flush of the timer callback and of handleExit: the event it emits
flushEmits(buf) ==
  IF trim(buf) # <<>> /\ cleanTerminalOutput(buf) # <<>>
  THEN << <<"output", cleanTerminalOutput(buf)>> >>
  ELSE <<>>

\* and the accumulator it leaves
flushLeaves(buf) == IF trim(buf) # <<>> THEN <<>> ELSE buf

\* spawn(): throws at once with a handle present; else pty.spawn either
\* succeeds (handle, listeners, ready promotion scheduled) or throws
spawnCall ==
  /\ nWrapOps < MaxWrapOps
  /\ nWrapOps' = nWrapOps + 1
  /\ IF handle
     THEN /\ wev' = Did("spawn", <<>>, 0, 0, 0, TRUE, aliveWith(handle, status))
          /\ UNCHANGED <<handle, status, readyTimeout, subs>>
     ELSE \/ /\ Len(subs) < MaxSpawns
             /\ handle' = TRUE
             /\ subs' = Append(subs, "running")
             /\ readyTimeout' = "armed"
             /\ wev' = Did("spawn", <<>>, 0, 0, 0, FALSE, aliveWith(TRUE, status))
             /\ UNCHANGED status
          \/ /\ status' = "terminated"
             /\ wev' = Did("spawn", <<>>, 0, 0, 0, TRUE, FALSE)
             /\ UNCHANGED <<handle, readyTimeout, subs>>
  /\ UNCHANGED <<outputBuffer, outputTimer, outputPending, deadlines, nData>>

\* the ready promotion of lines 227-233 fires
readyFires ==
  /\ readyTimeout = "armed"
  /\ readyTimeout' = "fired"
  /\ IF status = "starting"
     THEN /\ status' = "ready"
          /\ wev' = Did("readyFires", << <<"ready", <<>>>> >>, 0, 0, 0, FALSE,
                         aliveWith(handle, "ready"))
     ELSE /\ wev' = Did("readyFires", <<>>, 0, 0, 0, FALSE, aliveWith(handle, status))
          /\ UNCHANGED status
  /\ UNCHANGED <<handle, outputBuffer, outputTimer, outputPending, subs, deadlines,
                 nWrapOps, nData>>

\* a raw-data event whose prompt detection looks at the new data alone
handleRawOutput_newDataOnly(d) ==
  /\ nData < MaxData
  /\ \E g \in 1..Len(subs) : subs[g] = "running"
  /\ nData' = nData + 1
  /\ outputBuffer' = outputBuffer \o d
  /\ outputPending' = clearedOutput + 1
  /\ outputTimer' = "armed"
  /\ wev' = Did("data",
                << <<"rawOutput", d>> >> \o
                  (IF detectToolUsePrompt(d)
                   THEN << <<"toolUsePrompt", outputBuffer \o d>> >> ELSE <<>>),
                0, 0, 0, FALSE, aliveWith(handle, status))
  /\ UNCHANGED <<handle, status, readyTimeout, subs, deadlines, nWrapOps>>

\* pty.onData: handleRawOutput(data)
handleRawOutput(d) ==
  /\ nData < MaxData
  /\ \E g \in 1..Len(subs) : subs[g] = "running"
  /\ nData' = nData + 1
  /\ outputBuffer' = outputBuffer \o d
  /\ outputPending' = clearedOutput + 1
  /\ outputTimer' = "armed"
  /\ wev' = Did("data",
                << <<"rawOutput", d>> >> \o
                  (IF detectToolUsePrompt(outputBuffer \o d)
                   THEN << <<"toolUsePrompt", outputBuffer \o d>> >> ELSE <<>>),
                0, 0, 0, FALSE, aliveWith(handle, status))
  /\ UNCHANGED <<handle, status, readyTimeout, subs, deadlines, nWrapOps>>

\* an output timer runs out (lines 255-263): the one the handle names
\* ("held") or one set earlier and never cleared ("stale")
outputFires ==
  /\ outputPending > 0
  /\ \E h \in {"held", "stale"} :
       /\ h = "held" => outputTimer = "armed"
       /\ h = "stale" => outputPending > (IF outputTimer = "armed" THEN 1 ELSE 0)
       /\ outputTimer' = IF h = "held" THEN "fired" ELSE outputTimer
  /\ outputPending' = outputPending - 1
  /\ outputBuffer' = flushLeaves(outputBuffer)
  /\ wev' = Did("outputFires", flushEmits(outputBuffer), 0, 0, 0, FALSE,
                aliveWith(handle, status))
  /\ UNCHANGED <<handle, status, readyTimeout, subs, deadlines, nWrapOps, nData>>

\* a handleExit whose 'exit' event reaches no pending terminate()
handleExit_keepsDeadlines(g, code) ==
  /\ subs[g] \in {"running", "killed"}
  /\ subs' = [subs EXCEPT ![g] = "exited"]
  /\ status' = "terminated"
  /\ outputTimer' = "none"
  /\ outputPending' = clearedOutput
  /\ readyTimeout' = "none"
  /\ outputBuffer' = flushLeaves(outputBuffer)
  /\ handle' = FALSE
  /\ wev' = Did("exit", flushEmits(outputBuffer) \o << <<"exit", code>> >>,
                0, 0, 0, FALSE, aliveWith(handle, "terminated"))
  /\ UNCHANGED <<deadlines, nWrapOps, nData>>

\* pty.onExit of a subprocess: handleExit(exitCode).  The once('exit')
\* listener of every pending terminate() clears its deadline and resolves.
handleExit(g, code) ==
  /\ subs[g] \in {"running", "killed"}
  /\ subs' = [subs EXCEPT ![g] = "exited"]
  /\ status' = "terminated"
  /\ outputTimer' = "none"
  /\ outputPending' = clearedOutput
  /\ readyTimeout' = "none"
  /\ outputBuffer' = flushLeaves(outputBuffer)
  /\ handle' = FALSE
  /\ deadlines' = 0
  /\ wev' = Did("exit", flushEmits(outputBuffer) \o << <<"exit", code>> >>,
                0, 0, deadlines, FALSE, aliveWith(handle, "terminated"))
  /\ UNCHANGED <<nWrapOps, nData>>

\* sendInput(text) of the wrapper
inputCall ==
  /\ nWrapOps < MaxWrapOps
  /\ nWrapOps' = nWrapOps + 1
  /\ IF ~handle \/ status = "terminated"
     THEN /\ wev' = Did("sendInput", <<>>, 0, 0, 0, FALSE, aliveWith(handle, status))
          /\ UNCHANGED status
     ELSE /\ status' = "busy"
          /\ wev' = Did("sendInput", <<>>, 1, 0, 0, FALSE, aliveWith(handle, "busy"))
  /\ UNCHANGED <<handle, outputBuffer, outputTimer, outputPending, readyTimeout, subs,
                 deadlines, nData>>

\* sendControl(key) of the wrapper
controlCall ==
  /\ nWrapOps < MaxWrapOps
  /\ nWrapOps' = nWrapOps + 1
  /\ wev' = Did("sendControl", <<>>,
                IF ~handle \/ status = "terminated" THEN 0 ELSE 1, 0, 0, FALSE,
                aliveWith(handle, status))
  /\ UNCHANGED <<handle, status, outputBuffer, outputTimer, outputPending, readyTimeout,
                 subs, deadlines, nData>>

\* terminate(): returns at once without a handle; else clears both timers,
\* writes ETX and the exit directive, arms its forced-kill deadline and
\* registers its once('exit') listener
terminateCall ==
  /\ nWrapOps < MaxWrapOps
  /\ nWrapOps' = nWrapOps + 1
  /\ IF ~handle
     THEN /\ wev' = Did("terminate", <<>>, 0, 0, 1, FALSE, aliveWith(handle, status))
          /\ UNCHANGED <<outputTimer, outputPending, readyTimeout, deadlines>>
     ELSE /\ outputTimer' = "none"
          /\ outputPending' = clearedOutput
          /\ readyTimeout' = "none"
          /\ deadlines' = deadlines + 1
          /\ wev' = Did("terminate", <<>>, 2, 0, 0, FALSE, aliveWith(handle, status))
  /\ UNCHANGED <<handle, status, outputBuffer, subs, nData>>

\* the forced-kill deadline of one pending terminate() fires (lines 351-358)
deadlineFires ==
  /\ deadlines > 0
  /\ deadlines' = deadlines - 1
  /\ IF handle
     THEN /\ subs' = [subs EXCEPT ![Len(subs)] = "killed"]
          /\ handle' = FALSE
          /\ wev' = Did("deadlineFires", <<>>, 0, 1, 1, FALSE, FALSE)
     ELSE /\ wev' = Did("deadlineFires", <<>>, 0, 0, 1, FALSE, FALSE)
          /\ UNCHANGED <<subs, handle>>
  /\ status' = "terminated"
  /\ UNCHANGED <<outputBuffer, outputTimer, outputPending, readyTimeout, nWrapOps, nData>>

NextWrap ==
  /\ \/ spawnCall
     \/ readyFires
     \/ \E d \in DataTexts : handleRawOutput(d)
     \/ outputFires
     \/ \E g \in 1..Len(subs), code \in ExitCodes : handleExit(g, code)
     \/ inputCall
     \/ controlCall
     \/ terminateCall
     \/ deadlineFires
  /\ UNCHANGED <<mgrAll, down, chunkVars, cleanVars, strVars, promptVars>>

WrapSpec == Init /\ [][NextWrap]_vars

\* what the wrapper's steps leave alone
besideWrap == <<mgrAll, down, chunkVars, cleanVars, strVars, promptVars>>

\* The runtime runs every timer that stays armed; nothing obliges the user
\* to call or the subprocess to write or to exit.
WrapFair ==
  /\ WrapSpec
  /\ WF_vars(readyFires /\ UNCHANGED besideWrap)
  /\ WF_vars(outputFires /\ UNCHANGED besideWrap)
  /\ WF_vars(deadlineFires /\ UNCHANGED besideWrap)

\* ================================================================ claims
\* the session records the store holds for user u
StoredFor(u) == {s \in Sids : sessUser[s] = u /\ sessKey[s] # NoRec}
\* the tracked subprocesses of user u that are alive
LiveFor(u) == {s \in procs : sessUser[s] = u /\ pty[s] /\ wstatus[s] # "terminated"}
\* session s has a tracked process that is alive
Live(s) == s \in procs /\ pty[s] /\ wstatus[s] # "terminated"
\* the store holds nothing of session s
NotStored(s) == sessKey[s] = NoRec /\ \A u \in Users : userKey[u] # s
\* the oldest suspended caller resumes in this step
HeadResumed == storeQ # <<>> /\ storeQ' # storeQ /\ Len(storeQ') <= Len(storeQ)
\* getSessionForUser of caller t is about to find no live session
NoLiveCase(t) ==
  \/ t.pc = "g1" /\ t.sid = NoSid
  \/ t.pc = "g2" /\ (t.st = NoRec \/ ~Live(t.sid))
  \/ t.pc = "g3"
\* getSessionForUser of caller t starts the cleanup of a dead session
StartsCleanup(t) ==
  /\ t.pc = "g2" /\ t.st # NoRec
  /\ storeQ' = Append(Tail(storeQ), [t EXCEPT !.pc = "g3"])
\* no inactivity timer is armed by this step
NoTimerArmed == \A s \in Sids : timerMap'[s] = "armed" => timerMap[s] = "armed"

\* C1: in every reachable state each user has at most one session record in
\* the store and at most one alive tracked subprocess.
C1_OneSessionPerUser ==
  \A u \in Users : Cardinality(StoredFor(u)) <= 1 /\ Cardinality(LiveFor(u)) <= 1

\* C2: when createSession finds the user's session with a live process, the
\* call ends with SessionExists in that step, and the step spawns nothing and
\* leaves the store, the process map, the timers and every wrapper unchanged.
C2_ExistingSessionRefused ==
  [][(HeadResumed /\ Head(storeQ).kind = "create" /\ Head(storeQ).pc = "g2"
        /\ Head(storeQ).st # NoRec /\ Live(Head(storeQ).sid))
     => (/\ last' = Ret(Head(storeQ), "SessionExists")
         /\ UNCHANGED <<storeVars, mgrVars, wrapVars, nextSid, createdEv>>)]_vars

C2_Witness ==
  /\ last.kind = "create" /\ last.result = "SessionExists"
  /\ Live(last.sid) /\ sessKey[last.sid] # NoRec /\ timerMap[last.sid] = "armed"

\* a session whose spawn() threw
FailedSpawn(s) == wstatus[s] = "terminated" /\ osProc[s] = "none"

\* C3: a failed spawn() ends the createSession call with SpawnError in the
\* same step, which writes nothing; and the session it was building never
\* has a store entry, a tracked process, a timer or a created notification.
C3_SpawnErrorLeavesNothing ==
  /\ [](\A s \in Sids : FailedSpawn(s) =>
          /\ NotStored(s) /\ s \notin procs /\ timerMap[s] = "none"
          /\ s \notin createdEv /\ ~pty[s])
  /\ [][\A s \in Sids : (~FailedSpawn(s) /\ FailedSpawn(s)') =>
          /\ last'.kind = "create" /\ last'.result = "SpawnError" /\ last'.sid = s
          /\ UNCHANGED <<storeVars, mgrVars, createdEv>>]_vars

C3_Witness ==
  /\ last.kind = "create" /\ last.result = "SpawnError"
  /\ FailedSpawn(last.sid)

\* C8: a sendInput call whose getSessionForUser finds no live session (no
\* index entry, no record, or a missing or dead process) writes nothing,
\* arms no timer, and ends with NoSession (at once, or after the cleanup
\* of the dead session).
C8_InputNoSession ==
  [][(HeadResumed /\ Head(storeQ).kind = "input" /\ NoLiveCase(Head(storeQ)))
     => (/\ wrote' = NoWrite
         /\ NoTimerArmed
         /\ \/ last' = Ret(Head(storeQ), "NoSession")
            \/ StartsCleanup(Head(storeQ)))]_vars

C8_Witness ==
  /\ last.kind = "input" /\ last.result = "NoSession" /\ last.sid # NoSid
  /\ ~Live(last.sid)

\* C9 as claimed: a sendControl call that finds no live session ends with
\* NoSession, as sendInput does, and writes nothing.
C9_ControlNoSession ==
  [][(HeadResumed /\ Head(storeQ).kind = "control" /\ NoLiveCase(Head(storeQ)))
     => (/\ wrote' = NoWrite
         /\ \/ last' = Ret(Head(storeQ), "NoSession")
            \/ StartsCleanup(Head(storeQ)))]_vars

\* C9 as amended: a sendControl call that finds no live session returns
\* false (it does not fail with NoSession), and writes nothing.
C9_ControlReturnsFalse ==
  [][(HeadResumed /\ Head(storeQ).kind = "control" /\ NoLiveCase(Head(storeQ)))
     => (/\ wrote' = NoWrite
         /\ NoTimerArmed
         /\ \/ last' = Ret(Head(storeQ), "false")
            \/ StartsCleanup(Head(storeQ)))]_vars

C9_Witness ==
  /\ last.kind = "control" /\ last.result = "false" /\ last.sid # NoSid
  /\ ~Live(last.sid)

\* the suspended handleProcessExit of session s carries exit code c
ExitPending(s, c) ==
  \E i \in 1..Len(storeQ') :
    /\ storeQ'[i].kind = "exit" /\ storeQ'[i].sid = s /\ storeQ'[i].arg = c

Terminating(s) == \E i \in 1..Len(termWait) : termWait[i].sid = s

\* C10: a caller suspended in terminate() of a wrapper is eventually resumed,
\* and in the step that resumes it the wrapper has no pty and its status is
\* terminated; when the forced-kill deadline resumes it, a pty that was
\* still there has been killed.
C10_TerminateResolves ==
  /\ \A s \in Sids : Terminating(s) ~> ~Terminating(s)
  /\ [][\A s \in Sids : (Terminating(s) /\ Len(termWait') < Len(termWait)
                          /\ ~Terminating(s)') =>
          /\ ~pty'[s] /\ wstatus'[s] = "terminated"
          /\ (pty[s] /\ osProc'[s] # "exited") => osProc'[s] = "killed"]_vars

\* the forced kill resolved a terminate() the subprocess had ignored
C10_Witness ==
  \E s \in Sids :
    /\ osProc[s] = "killed" /\ ~pty[s] /\ wstatus[s] = "terminated"
    /\ ~Terminating(s)
    /\ \E i \in 1..Len(storeQ) : storeQ[i].sid = s /\ storeQ[i].pc = "del"

\* C4: getSessionForUser does not hand out a session whose process is
\* missing or dead: it starts the cleanup instead (timer cancelled, process
\* untracked, both store entries deleted); and whenever it is about to
\* return none after that cleanup, the timer is cancelled, the process is
\* untracked and both store entries are gone.
C4_DeadHandleCleaned ==
  /\ [][(HeadResumed /\ Head(storeQ).pc = "g2" /\ Head(storeQ).st # NoRec
           /\ ~Live(Head(storeQ).sid))
        => (/\ StartsCleanup(Head(storeQ))
            /\ last' = NoCall /\ wrote' = NoWrite
            /\ timerMap'[Head(storeQ).sid] = "none"
            /\ Head(storeQ).sid \notin procs'
            /\ sessKey'[Head(storeQ).sid] = NoRec
            /\ userKey'[Head(storeQ).user] = NoSid)]_vars
  /\ []((storeQ # <<>> /\ Head(storeQ).pc = "g3") =>
          /\ timerMap[Head(storeQ).sid] = "none"
          /\ Head(storeQ).sid \notin procs
          /\ NotStored(Head(storeQ).sid)
          /\ userKey[Head(storeQ).user] = NoSid)

\* C5: a terminateSession call that finds no live session returns false and
\* changes nothing; and in the state in which a terminateSession call
\* returns true, the session's process is not alive and not tracked, its
\* timer is cancelled and both of its store entries are deleted.
C5_TerminateSession ==
  /\ [][(HeadResumed /\ Head(storeQ).kind = "terminate" /\ NoLiveCase(Head(storeQ)))
        => (/\ last' = Ret(Head(storeQ), "false") \/ StartsCleanup(Head(storeQ))
            /\ UNCHANGED <<storeVars, mgrVars, wrapVars>>)]_vars
  /\ []((last.kind = "terminate" /\ last.result = "true") =>
          /\ ~(pty[last.sid] /\ wstatus[last.sid] # "terminated")
          /\ last.sid \notin procs
          /\ timerMap[last.sid] = "none"
          /\ NotStored(last.sid) /\ userKey[last.user] = NoSid)

\* nothing is suspended: no store reply and no terminate() is outstanding
Quiescent == storeQ = <<>> /\ termWait = <<>>

\* C6: once the inactivity timer of a session has fired without being
\* re-armed by an input, and everything the firing started has run to its
\* end, the session's subprocess (which did not exit by itself) has been
\* killed and untracked and both of its store entries are removed,
\* whichever of the timer and the store's expiry came first.
C6_InactivityCleans ==
  \A s \in Sids :
    (timerMap[s] = "fired" /\ Quiescent /\ osProc[s] = "running") =>
      /\ ~(pty[s] /\ wstatus[s] # "terminated")
      /\ s \notin procs
      /\ NotStored(s)

\* the terminate() calls pending on wrapper s, each with its own forced-kill
\* deadline
Pending(w, s) == {i \in 1..Len(w) : w[i].sid = s}

\* C11: terminate() on a wrapper that is already torn down (shutdown() calls
\* it on every tracked wrapper) writes nothing, arms no deadline and leaves
\* the status alone; and a terminate() called while an earlier one is
\* pending on the same wrapper writes nothing more to the subprocess and
\* arms no second forced-kill deadline.
C11_TerminateIdempotent ==
  /\ [][\A s \in Sids : (down = "no" /\ down' # "no" /\ s \in procs /\ ~pty[s]) =>
          /\ Pending(termWait', s) = Pending(termWait, s)
          /\ wstatus'[s] = wstatus[s] /\ readyTimer'[s] = readyTimer[s]
          /\ wrote'[1] # s]_vars
  /\ [][\A s \in Sids :
          (Pending(termWait, s) # {}
             /\ Cardinality(Pending(termWait', s)) > Cardinality(Pending(termWait, s)))
          => wrote'[1] # s]_vars
  /\ [](\A s \in Sids : Cardinality(Pending(termWait, s)) <= 1)

\* C17: the step in which shutdown() starts cancels every inactivity timer
\* and enters terminate() on every tracked wrapper that has a pty (its ready
\* timer is cancelled) before it waits for any of them; a pending shutdown()
\* completes, also when some terminate() was rejected; in the state in
\* which it completes the process map and the timer map are empty, and no
\* inactivity timer is armed after that.
C17_Shutdown ==
  /\ [][(down = "no" /\ down' # "no") =>
          /\ \A s \in Sids : timerMap'[s] = "none"
          /\ \A s \in procs : pty[s] => ~readyTimer'[s]]_vars
  /\ (down = "pending") ~> (down = "done")
  /\ [](last = ShutdownReturned =>
          procs = {} /\ \A s \in Sids : timerMap[s] = "none")
  /\ [](down = "done" => \A s \in Sids : timerMap[s] # "armed")

\* the status edges of a constructed wrapper
StatusEdges ==
  {<<"starting", "ready">>, <<"ready", "busy">>, <<"busy", "ready">>,
   <<"starting", "terminated">>, <<"ready", "terminated">>, <<"busy", "terminated">>}

\* C12: the status of a wrapper changes only along starting -> ready,
\* ready -> busy, busy -> ready and any -> terminated (a wrapper is
\* constructed in starting, and a spawn() that throws ends in terminated);
\* in particular never from starting directly to busy.
C12_StatusEdges ==
  [][\A s \in Sids :
       \/ wstatus'[s] = wstatus[s]
       \/ wstatus[s] = "unborn" /\ wstatus'[s] \in {"starting", "terminated"}
       \/ <<wstatus[s], wstatus'[s]>> \in StatusEdges]_vars

\* the blanks at the start of t
RECURSIVE Unblank(_)
Unblank(t) == IF t # <<>> /\ Head(t) \in {" ", "\n"} THEN Unblank(Tail(t)) ELSE t

\* t starts with p
StartsWith(t, p) == Len(p) <= Len(t) /\ SubSeq(t, 1, Len(p)) = p

\* t is the pieces ps in order with nothing but blanks between two pieces
\* and after the last (the blanks that were trimmed off the remainder)
RECURSIVE Rebuilds(_, _)
Rebuilds(t, ps) ==
  IF ps = <<>> THEN Unblank(t) = <<>>
  ELSE /\ StartsWith(Unblank(t), Head(ps))
       /\ Rebuilds(SubSeq(Unblank(t), Len(Head(ps)) + 1, Len(Unblank(t))), Tail(ps))

\* C18: text no longer than maxLength comes back as the one piece [text];
\* longer text comes back as pieces that, in order and with the blanks
\* trimmed off each remainder put back, are the text again: nothing but
\* blanks is lost, no piece is empty and no piece after the first starts
\* with a blank.
C18_ChunksRebuildText ==
  chunks # <<>> =>
    IF Len(text) <= maxLength THEN chunks = <<text>>
    ELSE /\ StartsWith(text, Head(chunks))
         /\ Rebuilds(SubSeq(text, Len(Head(chunks)) + 1, Len(text)), Tail(chunks))
         /\ \A i \in 1..Len(chunks) : chunks[i] # <<>>
         /\ \A i \in 2..Len(chunks) : Head(chunks[i]) \notin {" ", "\n"}

\* a text cut in three, with blanks trimmed off
C18_Witness ==
  /\ Len(chunks) >= 3
  /\ Len(chunks[1]) + Len(chunks[2]) + Len(chunks[3]) < Len(text)

\* t has no newline and no space among its first n characters
NoDelimiter(t, n) == \A i \in 1..n : t[i] \notin {" ", "\n"}

\* every piece of ps, cut off t in turn, is a hard cut of n characters when
\* the first n characters of what remained held no delimiter
RECURSIVE HardCuts(_, _, _)
HardCuts(t, ps, n) ==
  \/ ps = <<>>
  \/ /\ (Len(t) > n /\ NoDelimiter(t, n)) => Head(ps) = SubSeq(t, 1, n)
     /\ HardCuts(Unblank(SubSeq(t, Len(Head(ps)) + 1, Len(t))), Tail(ps), n)

\* C19: no piece is longer than maxLength, and a piece cut from a remainder
\* of more than maxLength characters whose first maxLength characters hold
\* no newline and no space is exactly those maxLength characters.
C19_PieceLengths ==
  chunks # <<>> =>
    /\ \A i \in 1..Len(chunks) : Len(chunks[i]) <= maxLength
    /\ HardCuts(text, chunks, maxLength)

\* a hard cut with a delimiter right behind it
C19_Witness ==
  /\ Len(chunks) >= 2 /\ Len(text) > maxLength /\ maxLength >= 2
  /\ NoDelimiter(text, maxLength)
  /\ text[maxLength + 1] = " "
  /\ Len(chunks[1]) = maxLength

\* C20: cleaning a text that was already cleaned changes nothing, for any
\* text: the second call returns what the first returned.
C20_CleanIdempotent ==
  Len(cleaned) = 2 => cleaned[2] = cleaned[1]

\* the flush that the latest step resumed had its unit for the last chunk
\* accepted, and goes on to post an earlier chunk
LastChunkAhead ==
  /\ ev.op = "reply" /\ ev.pc = "post" /\ ev.out = "ok"
  /\ ev.sent = "chunk"

\* C13: the chunks of one flush reach the thread in the order of the text:
\* when a flush cuts the buffer into several chunks, the unit for the last
\* chunk is never in the thread while an earlier chunk is still to be posted.
C13_ChunksInOrder ==
  LastChunkAhead =>
    \E k \in 1..Len(flights) :
      /\ flights[k].pc = "chunk"
      /\ thread[Len(thread)] # flights[k].chunks[Len(flights[k].chunks)]

\* the text t went out as the pieces ps: they are t again once the blanks
\* trimmed between the pieces are put back
Carries(t, ps) ==
  /\ ps # <<>>
  /\ StartsWith(t, Head(ps))
  /\ Rebuilds(SubSeq(t, Len(Head(ps)) + 1, Len(t)), Tail(ps))

\* t ends with u
EndsWith(t, u) ==
  Len(u) <= Len(t) /\ SubSeq(t, Len(t) - Len(u) + 1, Len(t)) = u

\* finalize() has been called on the streamer and no reset() since
FinalizeCalled ==
  isFinalized \/ \E k \in 1..Len(flights) : flights[k].by = "finalize"

\* C14: debounce.  While finalize() has not been called, an append leaves
\* exactly one timer pending, the one armed by this append, with the text of
\* all appends since the last timer-fired flush at the end of the buffer; the
\* step in which that timer fires leaves no timer pending, so one flush
\* follows the last append, and this flush sends the whole buffer, the text
\* of all these appends included.
C14_Debounce ==
  [][/\ pending' <= 1
     /\ (ev'.op = "append" /\ ~FinalizeCalled) =>
          /\ pending' = 1 /\ debounceTimer' = "armed"
          /\ burst' # <<>> /\ EndsWith(buffer', burst')
     /\ (ev'.op = "fire" /\ ~FinalizeCalled) =>
          /\ pending' = 0 /\ debounceTimer' = "fired"
          /\ EndsWith(buffer, burst) /\ burst # <<>>
          /\ ~blank(buffer) =>
               /\ Len(flights') = Len(flights) + 1
               /\ flights'[Len(flights')].by = "timer"
               /\ Carries(buffer, flights'[Len(flights')].chunks)
          /\ blank(buffer) => flights' = flights]_vars

\* three appends in a row, then the one flush with the text of all three
C14_Witness ==
  /\ ev.op = "fire" /\ nOps = 3 /\ ~FinalizeCalled
  /\ buffer = <<"a", "b", " ", "a", "b">>
  /\ Len(flights) = 1 /\ Len(flights[1].chunks) = 2
  /\ pending = 0

\* finalize() has completed and reset() has not been called since
FinalizeCompleted ==
  isFinalized /\ \A k \in 1..Len(flights) : flights[k].by # "finalize"

\* C16: on a finalized streamer an append changes neither the buffer nor the
\* remembered unit nor the counter and arms no timer; and once finalize() has
\* completed, no flush sends a request with buffered text (an update, or a
\* post of a chunk) until reset() is called.
C16_FinalizedIsQuiet ==
  [][/\ (ev'.op = "append" /\ isFinalized) =>
          /\ buffer' = buffer /\ lastMessageTs' = lastMessageTs
          /\ messageCount' = messageCount
          /\ pending' = pending /\ debounceTimer' = debounceTimer
     /\ (FinalizeCompleted /\ ev'.op # "reset") =>
          ev'.sent \notin {"update", "post", "chunk"}]_vars

\* C15: when chat.update fails because the unit is gone and the streamer
\* still remembers a unit, the flush forgets the unit and runs once more,
\* and what is left in the buffer goes out as a new unit; no flush runs a
\* third time, whatever the answer to the retry: the retry sends posts only,
\* one for each chunk at most, so the requests of one flush are bounded.
C15_RetryOnce ==
  [][/\ (/\ ev'.op = "reply" /\ ev'.pc = "update"
         /\ ev'.out = "message_not_found" /\ lastMessageTs # 0) =>
          /\ lastMessageTs' = 0
          /\ ev'.tries = 1
          /\ ~blank(buffer) => ev'.sent = "post"
          /\ blank(buffer) => ev'.sent \in {"none", "status"}
     /\ ev'.tries <= 1
     /\ \A k \in 1..Len(flights') :
          /\ flights'[k].tries <= 1
          /\ flights'[k].tries = 1 => flights'[k].pc \in {"post", "chunk", "status"}]_vars

\* an update failed for want of the unit, and the retry posts a new unit
C15_Witness ==
  /\ ev.op = "reply" /\ ev.pc = "update" /\ ev.out = "message_not_found"
  /\ ev.tries = 1 /\ ev.sent = "post"
  /\ lastMessageTs = 0

\* C21: terminate() on a wrapper with a handle resolves in no step but the
\* exit of the subprocess or the firing of its deadline.  The exit cancels
\* every pending deadline, resolves the calls and kills nothing; a deadline
\* that fires kills the handle if there still is one, a running subprocess
\* that was not killed before, forces the status to terminated and resolves
\* its call.
C21_ExitOrDeadline ==
  [][/\ (wev'.op = "terminate" /\ handle) =>
          /\ wev'.resolved = 0 /\ deadlines' = deadlines + 1
     /\ wev'.op = "exit" =>
          /\ deadlines' = 0 /\ wev'.resolved = deadlines
          /\ wev'.kills = 0
     /\ wev'.op = "deadlineFires" =>
          /\ wev'.resolved = 1 /\ deadlines' = deadlines - 1
          /\ wev'.kills = (IF handle THEN 1 ELSE 0)
          /\ handle => subs[Len(subs)] = "running" /\ subs'[Len(subs)] = "killed"
          /\ ~handle' /\ status' = "terminated"
     /\ wev'.op \notin {"terminate", "exit", "deadlineFires"} =>
          /\ wev'.resolved = 0 /\ wev'.kills = 0 /\ deadlines' = deadlines]_vars

\* the subprocess exits while a terminate() waits: the call resolves, its
\* deadline is gone and nothing was killed
C21_Witness ==
  /\ wev.op = "exit" /\ wev.resolved = 1
  /\ deadlines = 0
  /\ \A g \in 1..Len(subs) : subs[g] = "exited"

\* no step takes a busy wrapper to ready
BusyNeverReady ==
  [][status = "busy" => status' \in {"busy", "terminated"}]_vars

\* C22: busy is not kept until termination: a wrapper that sendInput made
\* busy is ready again later on, unless its subprocess ends first.
C22_BusyReturnsToReady ==
  [](status = "busy" => <>(status \in {"ready", "terminated"}))

\* C23: terminated is terminal: from a wrapper whose status is terminated
\* no step changes the status, makes isAlive() true, writes for sendInput
\* or sendControl, emits ready, or leaves the wrapper with a handle.
C23_TerminatedIsTerminal ==
  [][status = "terminated" =>
       /\ status' = "terminated"
       /\ ~wev'.alive
       /\ wev'.op \in {"sendInput", "sendControl"} => wev'.writes = 0
       /\ \A i \in 1..Len(wev'.emits) : wev'.emits[i][1] # "ready"
       /\ ~handle']_vars

\* the part of C23 that the code keeps: all but the handle
TerminatedStaysDead ==
  [][status = "terminated" =>
       /\ status' = "terminated"
       /\ ~wev'.alive
       /\ wev'.op \in {"sendInput", "sendControl"} => wev'.writes = 0
       /\ \A i \in 1..Len(wev'.emits) : wev'.emits[i][1] # "ready"]_vars

\* what handleExit is to do, the accumulator left aside: both timers
\* cancelled, the remaining content emitted once as output and then exit
\* with the code, status terminated, no handle, isAlive() false for the
\* listeners of exit
ExitSettles ==
  /\ outputTimer' = "none" /\ outputPending' = 0 /\ readyTimeout' = "none"
  /\ \E code \in ExitCodes :
       wev'.emits = (IF cleanTerminalOutput(outputBuffer) # <<>>
                     THEN << <<"output", cleanTerminalOutput(outputBuffer)>> >>
                     ELSE <<>>) \o << <<"exit", code>> >>
  /\ status' = "terminated"
  /\ ~handle'
  /\ ~wev'.alive

ExitKeepsAllButAccumulator == [][wev'.op = "exit" => ExitSettles]_vars

\* C24: on subprocess exit the timers are cancelled, the remaining content
\* goes out as one final output before the one exit notification, and the
\* wrapper ends terminated, with an empty accumulator and no handle, dead
\* already for the listeners of exit.
C24_ExitFlushes ==
  [][wev'.op = "exit" => ExitSettles /\ outputBuffer' = <<>>]_vars

\* the debouncing of the raw output, the clearing left aside: a raw-data
\* event leaves exactly one output timer, armed; an output event comes
\* only from a timer that fired (or from the last flush at exit) and
\* carries the accumulator, cleaned
DebounceStep ==
  /\ wev'.op = "data" => outputTimer' = "armed" /\ outputPending' = 1
  /\ \A i \in 1..Len(wev'.emits) :
       wev'.emits[i][1] = "output" =>
         /\ wev'.op \in {"outputFires", "exit"}
         /\ wev'.emits[i][2] = cleanTerminalOutput(outputBuffer)
  /\ wev'.op = "outputFires" =>
       /\ outputPending' = 0
       /\ cleanTerminalOutput(outputBuffer) # <<>> =>
            wev'.emits = << <<"output", cleanTerminalOutput(outputBuffer)>> >>

DebouncedButNotCleared == [][DebounceStep]_vars

\* C25: the raw output is debounced: every raw-data event re-arms the one
\* output timer, output is emitted only when it fires and carries what was
\* accumulated, and the accumulator is empty after every flush by the
\* timer, whatever it held.
C25_DebouncedAndCleared ==
  [][DebounceStep /\ (wev'.op = "outputFires" => outputBuffer' = <<>>)]_vars

\* the text appears in t, letter case aside
Holds(t, p) ==
  \E i \in 0..(Len(t) - Len(p)) :
    \A j \in 1..Len(p) : lower(t[i + j]) = p[j]

\* C26: every raw-data event looks for a prompt in the whole accumulator,
\* the new data included, and emits toolUsePrompt with that text when it
\* finds one; the accumulator holds the old content and the data, and the
\* one output timer is armed, whether a prompt was emitted or not.
C26_PromptOnAccumulator ==
  [][wev'.op = "data" =>
       \E d \in DataTexts :
         /\ outputBuffer' = outputBuffer \o d
         /\ outputTimer' = "armed" /\ outputPending' = 1
         /\ wev'.emits =
              << <<"rawOutput", d>> >> \o
                (IF Holds(outputBuffer \o d, <<"[", "y", "/", "n", "]">>)
                 THEN << <<"toolUsePrompt", outputBuffer \o d>> >>
                 ELSE <<>>)]_vars

\* a prompt that came in two pieces, neither a prompt by itself, is found
\* on the second
C26_Witness ==
  /\ wev.op = "data"
  /\ wev.emits = << <<"rawOutput", <<"N", "]">>>>,
                    <<"toolUsePrompt", <<"[", "y", "/", "N", "]">>>> >>
  /\ outputBuffer = <<"[", "y", "/", "N", "]">>
  /\ outputTimer = "armed" /\ outputPending = 1

\* the request of flights[k] is answered and that ends a flush begun by the
\* timer, every request of which succeeded, while the buffer is still the
\* text the flush took
FlushSucceeds(k) ==
  /\ ev'.op = "reply" /\ ev'.out = "ok" /\ ev'.sent = "none" /\ ev'.tries = 0
  /\ flights[k].by = "timer" /\ ev'.by = "timer"
  /\ flights[k].pc = ev'.pc /\ ev'.pc \in {"update", "post", "chunk"}
  /\ flights' = SubSeq(flights, 1, k - 1) \o SubSeq(flights, k + 1, Len(flights))
  /\ chunkText(buffer, FlushMax) = flights[k].chunks

\* C27: after a flush whose requests all succeeded the buffer is empty, so
\* that no later flush sends the same text again.
C27_FlushEmptiesBuffer ==
  [][\A k \in 1..Len(flights) : FlushSucceeds(k) => buffer' = <<>>]_vars

\* flush() is to update in place: one chunk, a remembered unit, fewer than
\* five units delivered
ShouldUpdate ==
  /\ Len(chunkText(buffer, FlushMax)) = 1
  /\ lastMessageTs # 0
  /\ messageCount < 5

\* C28: a flush of a non-blank buffer updates the remembered unit exactly
\* when the buffer is one chunk, a unit is remembered and fewer than five
\* units were delivered, and posts otherwise; the post of the last chunk
\* sets the remembered unit, every post that succeeds adds one to the
\* counter, an update leaves the counter alone, and a flush of a blank
\* buffer sends nothing.
C28_UpdateOrPost ==
  [][/\ ev'.op \in {"fire", "finalize"} =>
          /\ blank(buffer) => ev'.sent \in {"none", "status"}
          /\ ~blank(buffer) => ev'.sent = (IF ShouldUpdate THEN "update" ELSE "post")
          /\ ev'.sent \in {"update", "post"} =>
               flights'[Len(flights')].chunks = chunkText(buffer, FlushMax)
          /\ messageCount' = messageCount /\ thread' = thread
          /\ lastMessageTs' = lastMessageTs
     /\ (ev'.op = "reply" /\ ev'.pc = "update" /\ ev'.out # "ok") =>
          ev'.sent \in {"post", "status", "none"}
     /\ (ev'.op = "reply" /\ ev'.out = "ok" /\ ev'.pc = "update") =>
          /\ messageCount' = messageCount
          /\ Len(thread') = Len(thread)
          /\ lastMessageTs' = lastMessageTs
     /\ (ev'.op = "reply" /\ ev'.out = "ok" /\ ev'.pc = "post") =>
          /\ messageCount' = messageCount + 1
          /\ \E k \in 1..Len(flights) :
               /\ flights[k].pc = "post"
               /\ thread' = Append(thread, flights[k].chunks[Len(flights[k].chunks)])
          /\ lastMessageTs' = Len(thread')
     /\ (ev'.op = "reply" /\ ev'.out = "ok" /\ ev'.pc = "chunk") =>
          /\ messageCount' = messageCount + 1
          /\ Len(thread') = Len(thread) + 1
          /\ lastMessageTs' = lastMessageTs
     /\ (ev'.op = "reply" /\ ev'.out # "ok") =>
          /\ messageCount' = messageCount /\ thread' = thread]_vars

\* a flush of one chunk with a remembered unit posts, five units being
\* delivered
C28_Witness ==
  /\ ev.op = "fire" /\ ev.sent = "post"
  /\ Len(chunkText(buffer, FlushMax)) = 1
  /\ lastMessageTs # 0
  /\ messageCount = 5

\* the call behind flights[k] is over with this step
Ends(k) ==
  flights' = SubSeq(flights, 1, k - 1) \o SubSeq(flights, k + 1, Len(flights))

\* a request of a flush fails
FlushFails ==
  /\ ev'.op = "reply" /\ ev'.out # "ok"
  /\ ev'.pc \in {"update", "post", "chunk"}

FinalizeSendsStatus ==
  [][/\ ev'.op = "finalize" =>
          /\ debounceTimer' = "none" /\ pending' = cleared
          /\ ev'.sent = (IF ~blank(buffer)
                         THEN (IF ShouldUpdate THEN "update" ELSE "post")
                         ELSE IF Len(flights') > Len(flights) THEN "status" ELSE "none")
     /\ (ev'.op = "reply" /\ ev'.by = "finalize" /\ ev'.pc # "status") =>
          \A k \in 1..Len(flights) :
            (flights[k].by = "finalize" /\ flights[k].st /\ flights[k].pc = ev'.pc) =>
              ~Ends(k)]_vars

\* C30: the text buffered when finalize(statusText) is called is in the
\* thread no later than the status unit.  Stated for a streamer that was
\* called twice at most, so that the text of the thread was appended before
\* the one finalize() and no reset() lies between: a unit of text behind
\* the status unit is there before it as well.
C30_TextBeforeStatus ==
  nOps <= 2 =>
    \A i \in 1..Len(thread) :
      thread[i] = StatusText =>
        \A j \in (i + 1)..Len(thread) :
          thread[j] \notin {PromptText, StatusText} =>
            \E h \in 1..(i - 1) : thread[h] = thread[j]

\* every session whose subprocess has exited was notified once, when all
\* that the exit started has run to its end
ExitNotifiesOnce ==
  \A s \in Sids :
    /\ nNotified[s] <= 1
    /\ (Quiescent /\ osProc[s] = "exited") => nNotified[s] = 1

\* C31: every end of a session notifies its termination exactly once (the
\* listener of the notification calls finalize()).  No session is notified
\* twice; a session whose subprocess exited, by itself or on terminate(),
\* has been notified once when everything the exit started is over; and
\* when everything the inactivity timer started is over, the subprocess of
\* the session has exited or was killed (its exit is then under way).
C31_EveryEndNotifies ==
  /\ ExitNotifiesOnce
  /\ \A s \in Sids :
       (Quiescent /\ timerMap[s] = "fired") => osProc[s] \in {"killed", "exited"}

\* the oldest suspended caller, a sendInput or a sendControl, passes its
\* checks in this step and sends its setSession
Accepted ==
  /\ storeQ # <<>>
  /\ Head(storeQ).kind \in {"input", "control"}
  /\ Head(storeQ).pc \in {"g1", "g2", "g3"}
  /\ Len(storeQ') = Len(storeQ)
  /\ storeQ' = Append(Tail(storeQ),
                      [Head(storeQ) EXCEPT !.pc = "set", !.st = storeQ'[Len(storeQ')].st])

\* a sendInput or sendControl returns with success in this step
Succeeded == last'.kind \in {"input", "control"} /\ last'.result \in {"sent", "true"}

\* C32: a session never has more than one inactivity timer armed, and the
\* armed one is the one in the timer map; a sendInput or sendControl that
\* is accepted writes the session record (active for an input and for an
\* accept or reject) and the user index, and when it returns the timer it
\* found is cancelled and one new timer is armed.
C32_OneTimerRearmed ==
  /\ [](\A s \in Sids : /\ nTimers[s] <= 1
                        /\ nTimers[s] = 1 <=> timerMap[s] = "armed")
  /\ [][Accepted =>
          LET t == Head(storeQ) IN
          /\ sessKey'[t.sid] # NoRec
          /\ (t.kind = "input" \/ t.arg \in {"y", "n"}) => sessKey'[t.sid] = "active"
          /\ userKey'[t.user] = t.sid]_vars
  /\ [][Succeeded =>
          /\ timerMap'[last'.sid] = "armed"
          /\ nTimers'[last'.sid] = clearedTimer(last'.sid) + 1
          /\ nTimers'[last'.sid] = 1]_vars

\* a sendInput has returned for a session that was created before, whose
\* timer is armed anew
C32_Witness ==
  /\ last.kind = "input" /\ last.result = "sent"
  /\ last.sid \in createdEv
  /\ timerMap[last.sid] = "armed" /\ nTimers[last.sid] = 1
  /\ sessKey[last.sid] = "active" /\ userKey[last.user] = last.sid

\* the break point as the claim describes it: the offsets of 50% and of
\* 30% of max are accepted
BreakWithEqual(t, max) ==
  LET paragraphBreak == lastIndexOf(t, <<"\n", "\n">>, max)
      lineBreak == lastIndexOf(t, <<"\n">>, max)
      spaceBreak == lastIndexOf(t, <<" ">>, max)
  IN IF 2 * paragraphBreak >= max THEN paragraphBreak
     ELSE IF 10 * lineBreak >= 3 * max THEN lineBreak
     ELSE IF 10 * spaceBreak >= 3 * max THEN spaceBreak
     ELSE max

\* C33: the first piece of a text longer than maxLength ends at the
\* rightmost blank-line boundary if that lies at half of maxLength or
\* beyond, else at the rightmost line boundary, else at the rightmost space,
\* if that lies at 30% of maxLength or beyond, else at maxLength; a boundary
\* exactly at the offset counts.
C33_BreakOrder ==
  (chunks # <<>> /\ Len(text) > maxLength) =>
    chunks[1] = SliceTo(text, BreakWithEqual(text, maxLength))

\* the same with the boundaries that lie exactly at the offset left out:
\* there the code's choice is the one described
BreakOrderPastOffset ==
  (chunks # <<>> /\ Len(text) > maxLength
     /\ 2 * lastIndexOf(text, <<"\n", "\n">>, maxLength) # maxLength
     /\ 10 * lastIndexOf(text, <<"\n">>, maxLength) # 3 * maxLength
     /\ 10 * lastIndexOf(text, <<" ">>, maxLength) # 3 * maxLength) =>
    chunks[1] = SliceTo(text, BreakWithEqual(text, maxLength))

\* the texts that can remain in the loop: the ends of the text
Remainders(t) == {SubSeq(t, i, Len(t)) : i \in 1..(Len(t) + 1)}

\* C39: chunkText ends and returns at least one piece, none of them empty
\* unless the text itself is empty and is the one piece; every pass of the
\* loop over a remainder longer than maxLength takes at least one
\* character off it.
C39_ChunksNonEmpty ==
  /\ \A r \in Remainders(text) :
       Len(r) > maxLength =>
         /\ breakPoint(r, maxLength) >= 1
         /\ Len(trimStart(SliceFrom(r, breakPoint(r, maxLength)))) < Len(r)
  /\ Len(chunkText(text, maxLength)) >= 1
  /\ chunks # <<>> =>
       /\ chunks = chunkText(text, maxLength)
       /\ \A i \in 1..Len(chunks) : chunks[i] = <<>> => text = <<>> /\ chunks = << <<>> >>

\* a text longer than maxLength of which nothing remains behind the first
\* piece but blanks
C39_Witness ==
  /\ Len(chunks) = 1
  /\ Len(text) > maxLength
  /\ Len(chunks[1]) < Len(text)

\* C34: the cleanup of one session leaves the store entries of another
\* alone: a step that removes the user index entry of a user, the expiry
\* of the keys aside, is the cleanup of the session the entry pointed at
\* and removes that session's record with it.
C34_CleanupSparesOthers ==
  [][\A u \in Users :
       (userKey[u] # NoSid /\ userKey'[u] = NoSid /\ nElapsed' = nElapsed) =>
         sessKey'[userKey[u]] = NoRec]_vars

\* session s was tracked and its cleanup has run: it is tracked no more
Cleaned(s) == s \in createdEv /\ s \notin procs

\* C35: once the cleanup of a session has deleted its store entries no
\* step writes them again: neither the record of the session nor a user
\* index entry that points at it.
C35_DeletedStaysDeleted ==
  [][\A s \in Sids :
       (Cleaned(s) /\ NotStored(s)) =>
         /\ sessKey'[s] = NoRec
         /\ \A u \in Users : userKey'[u] # s]_vars

\* C40: no inactivity timer is armed for a session whose cleanup has run,
\* whatever call was suspended on the store while the cleanup ran.
C40_NoTimerAfterCleanup ==
  \A s \in Sids : Cleaned(s) => (timerMap[s] # "armed" /\ nTimers[s] = 0)

\* the flush() calls of the debounce timer and of finalize that await the
\* destination
FlushesInProgress ==
  {k \in 1..Len(flights) :
     flights[k].by \in {"timer", "finalize"} /\ flights[k].pc \in {"update", "post", "chunk"}}

\* C38: at most one flush of the dispatcher awaits the destination at any
\* time, so that no two flushes post the same buffered text as two new units.
C38_OneFlushInProgress ==
  /\ Cardinality(FlushesInProgress) <= 1
  /\ \A i, j \in FlushesInProgress :
       (i # j /\ flights[i].pc = "post" /\ flights[j].pc = "post")
         => flights[i].chunks # flights[j].chunks

\* C37: while the subprocess of a session waits at an unanswered prompt and
\* the store says waiting_input, no step that leaves the prompt unanswered
\* (no sendInput, no sendControl) makes the persisted status active.
C37_PromptKeepsWaiting ==
  [][\A s \in Sids :
       (prompting[s] /\ prompting'[s] /\ sessKey[s] = "waiting_input")
         => sessKey'[s] # "active"]_vars

\* C36: in the state a failed createSession leaves (SpawnError, or a
\* StorageError behind the spawn) the subprocess of the session it made
\* does not run, is not tracked, has no inactivity timer armed, and the
\* store holds nothing of the session.
C36_CreateAllOrNothing ==
  (last.kind = "create" /\ last.result \in {"SpawnError", "StorageError"}) =>
    /\ osProc[last.sid] # "running"
    /\ last.sid \notin procs
    /\ timerMap[last.sid] # "armed"
    /\ NotStored(last.sid)

====
